---- MODULE Spec2Model ----
(***************************************************************************)
(* gen_triglut_coe.py: the Q9.7 trigonometric lookup table (sin, cos, tan, *)
(* cot at 1024 angles) and its rendering as a Xilinx COE file.             *)
(*                                                                         *)
(* Two ways of using the file are modelled.  mode = "main" is the run of   *)
(* the script (lines 128-133): generate_trig_lut, one loop iteration per   *)
(* step, then write_combined_coe_file, one f.write per step.  mode =       *)
(* "call" is one call of a function of the module on an argument drawn     *)
(* from a bounded set: to_fixed_point, to_unsigned_hex, and the general    *)
(* tan/cot branch of generate_trig_lut on a value returned by math.tan.    *)
(*                                                                         *)
(* A Python float is carried as a record [m, e] standing for the dyadic    *)
(* rational m * 2^e, exactly; the operations that round (math.sin,         *)
(* math.cos, math.tan, the division 1.0 / tan_val) keep MantBits           *)
(* significant bits where binary64 keeps 53.                               *)
(***************************************************************************)
EXTENDS Integers, Sequences, FiniteSets, TLC

VARIABLES mode, pc, i, sin_table, cos_table, tan_table, cot_table, branch, f,
          fn, arg, res

vars == <<mode, pc, i, sin_table, cos_table, tan_table, cot_table, branch, f,
          fn, arg, res>>

(***************************************************************************)
(* Bounds of the model.                                                    *)
(***************************************************************************)
\* significant bits kept by the rounding float operations
MantBits == 28
\* the arguments of a call lie on the grid of step 2^-GridBits
GridBits == 9
\* largest mantissa of the arguments m * 2^e taken off the grid
MaxMant == 20

(***************************************************************************)
(* Integer helpers.                                                        *)
(***************************************************************************)
RECURSIVE Pow2(_)
Pow2(n) == IF n = 0 THEN 1 ELSE 2 * Pow2(n - 1)

Abs(n) == IF n < 0 THEN -n ELSE n

Sgn(n) == IF n < 0 THEN -1 ELSE IF n > 0 THEN 1 ELSE 0

\* number of binary digits of n >= 0
RECURSIVE BitLen(_)
BitLen(n) == IF n = 0 THEN 0 ELSE 1 + BitLen(n \div 2)

(***************************************************************************)
(* Python floats.                                                          *)
(***************************************************************************)
Float(m, e) == [m |-> m, e |-> e]

\* sys.float_info.max_exp: a float is finite iff its magnitude is below 2^1024
FloatMaxExp == 1024

\* the magnitude of x lies in [2^(FTop(x)-1), 2^FTop(x))
FTop(x) == BitLen(Abs(x.m)) + x.e

\* the result of an operation that left the finite range is inf (or -inf)
IsInf(x) == x.m # 0 /\ FTop(x) > FloatMaxExp

\* the same value with a mantissa of exactly MantBits bits (0 as 0 * 2^0)
FNorm(x) ==
    LET n == BitLen(Abs(x.m)) IN
    IF x.m = 0 THEN Float(0, 0)
    ELSE IF n <= MantBits
         THEN Float(x.m * Pow2(MantBits - n), x.e - (MantBits - n))
         ELSE Float(Sgn(x.m) * (Abs(x.m) \div Pow2(n - MantBits)),
                    x.e + (n - MantBits))

\* x < y
FLess(x, y) ==
    LET a == FNorm(x)
        b == FNorm(y)
        MagLess(p, q) == p.e < q.e \/ (p.e = q.e /\ Abs(p.m) < Abs(q.m))
    IN  IF Sgn(a.m) # Sgn(b.m) THEN Sgn(a.m) < Sgn(b.m)
        ELSE IF a.m = 0 THEN FALSE
        ELSE IF a.m > 0 THEN MagLess(a, b)
        ELSE MagLess(b, a)

\* abs(x)
FAbs(x) == Float(Abs(x.m), x.e)

\* x * 2**k: exact in binary floating point, unless it overflows to inf
FMulPow2(x, k) == IF x.m = 0 THEN x ELSE Float(x.m, x.e + k)

\* the quotient bits of 2^n / d by long division: <<quotient, remainder>>
RECURSIVE LongDiv(_, _, _, _)
LongDiv(r, q, d, n) ==
    IF n = 0 THEN <<q, r>>
    ELSE IF 2 * r >= d THEN LongDiv(2 * r - d, 2 * q + 1, d, n - 1)
         ELSE LongDiv(2 * r, 2 * q, d, n - 1)

\* 1.0 / x for x # 0, rounded to nearest, ties to even
FRecip(x) ==
    LET a == FNorm(x)
        d == Abs(a.m)
        qr == LongDiv(1, 0, d, 2 * MantBits - 1)
        q == qr[1]
        r == qr[2]
        up == 2 * r > d \/ (2 * r = d /\ q % 2 = 1)
        m == IF up THEN q + 1 ELSE q
    IN  FNorm(Float(Sgn(a.m) * m, 1 - 2 * MantBits - a.e))

\* a Python int beyond +-IntCap is carried as +-IntCap: the code only orders
\* the rounded value against max_val and min_val
IntCap == Pow2(30)

\* mutant of PyRound: int(x), the round call dropped (truncation towards 0)
PyTrunc(x) ==
    IF x.m = 0 THEN 0
    ELSE IF x.e >= 0
         THEN IF FTop(x) >= BitLen(IntCap) THEN Sgn(x.m) * IntCap
              ELSE x.m * Pow2(x.e)
    ELSE IF -x.e >= BitLen(IntCap) THEN 0
    ELSE Sgn(x.m) * (Abs(x.m) \div Pow2(-x.e))

\* int(round(x)) for a finite x: round to nearest, ties to even
PyRound(x) ==
    LET a == Abs(x.m)
        k == -x.e
        d == Pow2(k)
        q == a \div d
        r == a % d
    IN  IF x.m = 0 THEN 0
        ELSE IF x.e >= 0
             THEN IF FTop(x) >= BitLen(IntCap) THEN Sgn(x.m) * IntCap
                  ELSE x.m * Pow2(x.e)
        ELSE IF k >= BitLen(IntCap) THEN 0
        ELSE IF 2 * r > d \/ (2 * r = d /\ q % 2 = 1) THEN Sgn(x.m) * (q + 1)
        ELSE Sgn(x.m) * q

(***************************************************************************)
(* The C library's sin, cos and tan at the 1024 angles i * angle_scale,    *)
(* angle_scale = 2.0 * math.pi / 1024 (lines 34 and 42), entry i + 1 for   *)
(* index i: each value <<m, e>> is the binary64 result rounded to 28        *)
(* significant bits.  At the axis angles the library's results are not the *)
(* exact ones: sin(512 * angle_scale) is 1.22e-16, cos(256 * angle_scale)  *)
(* is 6.12e-17, tan(256 * angle_scale) is 1.63e16.  The 28 bits are enough *)
(* for every encoded entry of the table to be the one binary64 gives.      *)
(***************************************************************************)
\* math.sin(i * angle_scale)
SinTab == <<
    <<0, 0>>, <<210827391, -35>>, <<210823422, -34>>, <<158112606, -33>>,
    <<210807548, -33>>, <<263494553, -33>>, <<158085819, -32>>, <<184418409, -32>>,
    <<210744057, -32>>, <<237061769, -32>>, <<263370557, -32>>, <<144834714, -31>>,
    <<157978697, -31>>, <<171116733, -31>>, <<184248325, -31>>, <<197372981, -31>>,
    <<210490206, -31>>, <<223599506, -31>>, <<236700388, -31>>, <<249792358, -31>>,
    <<262874923, -31>>, <<137973796, -30>>, <<144504935, -30>>, <<151030634, -30>>,
    <<157550647, -30>>, <<164064728, -30>>, <<170572633, -30>>, <<177074115, -30>>,
    <<183568930, -30>>, <<190056834, -30>>, <<196537583, -30>>, <<203010932, -30>>,
    <<209476638, -30>>, <<215934457, -30>>, <<222384147, -30>>, <<228825464, -30>>,
    <<235258165, -30>>, <<241682010, -30>>, <<248096755, -30>>, <<254502159, -30>>,
    <<260897982, -30>>, <<267283981, -30>>, <<136829959, -29>>, <<140012776, -29>>,
    <<143190321, -29>>, <<146362476, -29>>, <<149529120, -29>>, <<152690134, -29>>,
    <<155845399, -29>>, <<158994797, -29>>, <<162138209, -29>>, <<165275517, -29>>,
    <<168406602, -29>>, <<171531347, -29>>, <<174649633, -29>>, <<177761344, -29>>,
    <<180866363, -29>>, <<183964572, -29>>, <<187055855, -29>>, <<190140095, -29>>,
    <<193217176, -29>>, <<196286984, -29>>, <<199349401, -29>>, <<202404312, -29>>,
    <<205451603, -29>>, <<208491159, -29>>, <<211522866, -29>>, <<214546609, -29>>,
    <<217562274, -29>>, <<220569748, -29>>, <<223568918, -29>>, <<226559670, -29>>,
    <<229541893, -29>>, <<232515474, -29>>, <<235480300, -29>>, <<238436261, -29>>,
    <<241383245, -29>>, <<244321140, -29>>, <<247249838, -29>>, <<250169226, -29>>,
    <<253079196, -29>>, <<255979637, -29>>, <<258870441, -29>>, <<261751499, -29>>,
    <<264622702, -29>>, <<267483942, -29>>, <<135167556, -28>>, <<136588051, -28>>,
    <<138003405, -28>>, <<139413562, -28>>, <<140818471, -28>>, <<142218078, -28>>,
    <<143612330, -28>>, <<145001176, -28>>, <<146384562, -28>>, <<147762437, -28>>,
    <<149134749, -28>>, <<150501446, -28>>, <<151862477, -28>>, <<153217790, -28>>,
    <<154567334, -28>>, <<155911060, -28>>, <<157248915, -28>>, <<158580850, -28>>,
    <<159906814, -28>>, <<161226759, -28>>, <<162540633, -28>>, <<163848387, -28>>,
    <<165149973, -28>>, <<166445340, -28>>, <<167734442, -28>>, <<169017228, -28>>,
    <<170293651, -28>>, <<171563662, -28>>, <<172827214, -28>>, <<174084259, -28>>,
    <<175334750, -28>>, <<176578640, -28>>, <<177815881, -28>>, <<179046428, -28>>,
    <<180270234, -28>>, <<181487253, -28>>, <<182697439, -28>>, <<183900747, -28>>,
    <<185097131, -28>>, <<186286546, -28>>, <<187468947, -28>>, <<188644290, -28>>,
    <<189812531, -28>>, <<190973626, -28>>, <<192127530, -28>>, <<193274202, -28>>,
    <<194413596, -28>>, <<195545671, -28>>, <<196670384, -28>>, <<197787692, -28>>,
    <<198897553, -28>>, <<199999926, -28>>, <<201094770, -28>>, <<202182042, -28>>,
    <<203261702, -28>>, <<204333709, -28>>, <<205398024, -28>>, <<206454605, -28>>,
    <<207503414, -28>>, <<208544410, -28>>, <<209577554, -28>>, <<210602808, -28>>,
    <<211620133, -28>>, <<212629490, -28>>, <<213630842, -28>>, <<214624151, -28>>,
    <<215609380, -28>>, <<216586491, -28>>, <<217555448, -28>>, <<218516213, -28>>,
    <<219468752, -28>>, <<220413028, -28>>, <<221349006, -28>>, <<222276649, -28>>,
    <<223195925, -28>>, <<224106797, -28>>, <<225009231, -28>>, <<225903194, -28>>,
    <<226788652, -28>>, <<227665572, -28>>, <<228533919, -28>>, <<229393663, -28>>,
    <<230244771, -28>>, <<231087209, -28>>, <<231920948, -28>>, <<232745954, -28>>,
    <<233562198, -28>>, <<234369649, -28>>, <<235168275, -28>>, <<235958048, -28>>,
    <<236738937, -28>>, <<237510913, -28>>, <<238273946, -28>>, <<239028009, -28>>,
    <<239773073, -28>>, <<240509109, -28>>, <<241236090, -28>>, <<241953989, -28>>,
    <<242662778, -28>>, <<243362431, -28>>, <<244052922, -28>>, <<244734224, -28>>,
    <<245406313, -28>>, <<246069161, -28>>, <<246722746, -28>>, <<247367041, -28>>,
    <<248002024, -28>>, <<248627669, -28>>, <<249243953, -28>>, <<249850854, -28>>,
    <<250448347, -28>>, <<251036412, -28>>, <<251615025, -28>>, <<252184165, -28>>,
    <<252743810, -28>>, <<253293940, -28>>, <<253834534, -28>>, <<254365570, -28>>,
    <<254887030, -28>>, <<255398894, -28>>, <<255901142, -28>>, <<256393755, -28>>,
    <<256876715, -28>>, <<257350004, -28>>, <<257813604, -28>>, <<258267498, -28>>,
    <<258711668, -28>>, <<259146097, -28>>, <<259570770, -28>>, <<259985670, -28>>,
    <<260390782, -28>>, <<260786090, -28>>, <<261171580, -28>>, <<261547237, -28>>,
    <<261913046, -28>>, <<262268995, -28>>, <<262615070, -28>>, <<262951257, -28>>,
    <<263277544, -28>>, <<263593919, -28>>, <<263900370, -28>>, <<264196885, -28>>,
    <<264483453, -28>>, <<264760064, -28>>, <<265026706, -28>>, <<265283371, -28>>,
    <<265530048, -28>>, <<265766727, -28>>, <<265993401, -28>>, <<266210060, -28>>,
    <<266416696, -28>>, <<266613302, -28>>, <<266799871, -28>>, <<266976394, -28>>,
    <<267142866, -28>>, <<267299280, -28>>, <<267445630, -28>>, <<267581912, -28>>,
    <<267708119, -28>>, <<267824246, -28>>, <<267930291, -28>>, <<268026248, -28>>,
    <<268112114, -28>>, <<268187885, -28>>, <<268253560, -28>>, <<268309135, -28>>,
    <<268354608, -28>>, <<268389978, -28>>, <<268415243, -28>>, <<268430403, -28>>,
    <<134217728, -27>>, <<268430403, -28>>, <<268415243, -28>>, <<268389978, -28>>,
    <<268354608, -28>>, <<268309135, -28>>, <<268253560, -28>>, <<268187885, -28>>,
    <<268112114, -28>>, <<268026248, -28>>, <<267930291, -28>>, <<267824246, -28>>,
    <<267708119, -28>>, <<267581912, -28>>, <<267445630, -28>>, <<267299280, -28>>,
    <<267142866, -28>>, <<266976394, -28>>, <<266799871, -28>>, <<266613302, -28>>,
    <<266416696, -28>>, <<266210060, -28>>, <<265993401, -28>>, <<265766727, -28>>,
    <<265530048, -28>>, <<265283371, -28>>, <<265026706, -28>>, <<264760064, -28>>,
    <<264483453, -28>>, <<264196885, -28>>, <<263900370, -28>>, <<263593919, -28>>,
    <<263277544, -28>>, <<262951257, -28>>, <<262615070, -28>>, <<262268995, -28>>,
    <<261913046, -28>>, <<261547237, -28>>, <<261171580, -28>>, <<260786090, -28>>,
    <<260390782, -28>>, <<259985670, -28>>, <<259570770, -28>>, <<259146097, -28>>,
    <<258711668, -28>>, <<258267498, -28>>, <<257813604, -28>>, <<257350004, -28>>,
    <<256876715, -28>>, <<256393755, -28>>, <<255901142, -28>>, <<255398894, -28>>,
    <<254887030, -28>>, <<254365570, -28>>, <<253834534, -28>>, <<253293940, -28>>,
    <<252743810, -28>>, <<252184165, -28>>, <<251615025, -28>>, <<251036412, -28>>,
    <<250448347, -28>>, <<249850854, -28>>, <<249243953, -28>>, <<248627669, -28>>,
    <<248002024, -28>>, <<247367041, -28>>, <<246722746, -28>>, <<246069161, -28>>,
    <<245406313, -28>>, <<244734224, -28>>, <<244052922, -28>>, <<243362431, -28>>,
    <<242662778, -28>>, <<241953989, -28>>, <<241236090, -28>>, <<240509109, -28>>,
    <<239773073, -28>>, <<239028009, -28>>, <<238273946, -28>>, <<237510913, -28>>,
    <<236738937, -28>>, <<235958048, -28>>, <<235168275, -28>>, <<234369649, -28>>,
    <<233562198, -28>>, <<232745954, -28>>, <<231920948, -28>>, <<231087209, -28>>,
    <<230244771, -28>>, <<229393663, -28>>, <<228533919, -28>>, <<227665572, -28>>,
    <<226788652, -28>>, <<225903194, -28>>, <<225009231, -28>>, <<224106797, -28>>,
    <<223195925, -28>>, <<222276649, -28>>, <<221349006, -28>>, <<220413028, -28>>,
    <<219468752, -28>>, <<218516213, -28>>, <<217555448, -28>>, <<216586491, -28>>,
    <<215609380, -28>>, <<214624151, -28>>, <<213630842, -28>>, <<212629490, -28>>,
    <<211620133, -28>>, <<210602808, -28>>, <<209577554, -28>>, <<208544410, -28>>,
    <<207503414, -28>>, <<206454605, -28>>, <<205398024, -28>>, <<204333709, -28>>,
    <<203261702, -28>>, <<202182042, -28>>, <<201094770, -28>>, <<199999926, -28>>,
    <<198897553, -28>>, <<197787692, -28>>, <<196670384, -28>>, <<195545671, -28>>,
    <<194413596, -28>>, <<193274202, -28>>, <<192127530, -28>>, <<190973626, -28>>,
    <<189812531, -28>>, <<188644290, -28>>, <<187468947, -28>>, <<186286546, -28>>,
    <<185097131, -28>>, <<183900747, -28>>, <<182697439, -28>>, <<181487253, -28>>,
    <<180270234, -28>>, <<179046428, -28>>, <<177815881, -28>>, <<176578640, -28>>,
    <<175334750, -28>>, <<174084259, -28>>, <<172827214, -28>>, <<171563662, -28>>,
    <<170293651, -28>>, <<169017228, -28>>, <<167734442, -28>>, <<166445340, -28>>,
    <<165149973, -28>>, <<163848387, -28>>, <<162540633, -28>>, <<161226759, -28>>,
    <<159906814, -28>>, <<158580850, -28>>, <<157248915, -28>>, <<155911060, -28>>,
    <<154567334, -28>>, <<153217790, -28>>, <<151862477, -28>>, <<150501446, -28>>,
    <<149134749, -28>>, <<147762437, -28>>, <<146384562, -28>>, <<145001176, -28>>,
    <<143612330, -28>>, <<142218078, -28>>, <<140818471, -28>>, <<139413562, -28>>,
    <<138003405, -28>>, <<136588051, -28>>, <<135167556, -28>>, <<267483942, -29>>,
    <<264622702, -29>>, <<261751499, -29>>, <<258870441, -29>>, <<255979637, -29>>,
    <<253079196, -29>>, <<250169226, -29>>, <<247249838, -29>>, <<244321140, -29>>,
    <<241383245, -29>>, <<238436261, -29>>, <<235480300, -29>>, <<232515474, -29>>,
    <<229541893, -29>>, <<226559670, -29>>, <<223568918, -29>>, <<220569748, -29>>,
    <<217562274, -29>>, <<214546609, -29>>, <<211522866, -29>>, <<208491159, -29>>,
    <<205451603, -29>>, <<202404312, -29>>, <<199349401, -29>>, <<196286984, -29>>,
    <<193217176, -29>>, <<190140095, -29>>, <<187055855, -29>>, <<183964572, -29>>,
    <<180866363, -29>>, <<177761344, -29>>, <<174649633, -29>>, <<171531347, -29>>,
    <<168406602, -29>>, <<165275517, -29>>, <<162138209, -29>>, <<158994797, -29>>,
    <<155845399, -29>>, <<152690134, -29>>, <<149529120, -29>>, <<146362476, -29>>,
    <<143190321, -29>>, <<140012776, -29>>, <<136829959, -29>>, <<267283981, -30>>,
    <<260897982, -30>>, <<254502159, -30>>, <<248096755, -30>>, <<241682010, -30>>,
    <<235258165, -30>>, <<228825464, -30>>, <<222384147, -30>>, <<215934457, -30>>,
    <<209476638, -30>>, <<203010932, -30>>, <<196537583, -30>>, <<190056834, -30>>,
    <<183568930, -30>>, <<177074115, -30>>, <<170572633, -30>>, <<164064728, -30>>,
    <<157550647, -30>>, <<151030634, -30>>, <<144504935, -30>>, <<137973796, -30>>,
    <<262874923, -31>>, <<249792358, -31>>, <<236700388, -31>>, <<223599506, -31>>,
    <<210490206, -31>>, <<197372981, -31>>, <<184248325, -31>>, <<171116733, -31>>,
    <<157978697, -31>>, <<144834714, -31>>, <<263370557, -32>>, <<237061769, -32>>,
    <<210744057, -32>>, <<184418409, -32>>, <<158085819, -32>>, <<263494553, -33>>,
    <<210807548, -33>>, <<158112606, -33>>, <<210823422, -34>>, <<210827391, -35>>,
    <<148050714, -80>>, <<-210827391, -35>>, <<-210823422, -34>>, <<-158112606, -33>>,
    <<-210807548, -33>>, <<-263494553, -33>>, <<-158085819, -32>>, <<-184418409, -32>>,
    <<-210744057, -32>>, <<-237061769, -32>>, <<-263370557, -32>>, <<-144834714, -31>>,
    <<-157978697, -31>>, <<-171116733, -31>>, <<-184248325, -31>>, <<-197372981, -31>>,
    <<-210490206, -31>>, <<-223599506, -31>>, <<-236700388, -31>>, <<-249792358, -31>>,
    <<-262874923, -31>>, <<-137973796, -30>>, <<-144504935, -30>>, <<-151030634, -30>>,
    <<-157550647, -30>>, <<-164064728, -30>>, <<-170572633, -30>>, <<-177074115, -30>>,
    <<-183568930, -30>>, <<-190056834, -30>>, <<-196537583, -30>>, <<-203010932, -30>>,
    <<-209476638, -30>>, <<-215934457, -30>>, <<-222384147, -30>>, <<-228825464, -30>>,
    <<-235258165, -30>>, <<-241682010, -30>>, <<-248096755, -30>>, <<-254502159, -30>>,
    <<-260897982, -30>>, <<-267283981, -30>>, <<-136829959, -29>>, <<-140012776, -29>>,
    <<-143190321, -29>>, <<-146362476, -29>>, <<-149529120, -29>>, <<-152690134, -29>>,
    <<-155845399, -29>>, <<-158994797, -29>>, <<-162138209, -29>>, <<-165275517, -29>>,
    <<-168406602, -29>>, <<-171531347, -29>>, <<-174649633, -29>>, <<-177761344, -29>>,
    <<-180866363, -29>>, <<-183964572, -29>>, <<-187055855, -29>>, <<-190140095, -29>>,
    <<-193217176, -29>>, <<-196286984, -29>>, <<-199349401, -29>>, <<-202404312, -29>>,
    <<-205451603, -29>>, <<-208491159, -29>>, <<-211522866, -29>>, <<-214546609, -29>>,
    <<-217562274, -29>>, <<-220569748, -29>>, <<-223568918, -29>>, <<-226559670, -29>>,
    <<-229541893, -29>>, <<-232515474, -29>>, <<-235480300, -29>>, <<-238436261, -29>>,
    <<-241383245, -29>>, <<-244321140, -29>>, <<-247249838, -29>>, <<-250169226, -29>>,
    <<-253079196, -29>>, <<-255979637, -29>>, <<-258870441, -29>>, <<-261751499, -29>>,
    <<-264622702, -29>>, <<-267483942, -29>>, <<-135167556, -28>>, <<-136588051, -28>>,
    <<-138003405, -28>>, <<-139413562, -28>>, <<-140818471, -28>>, <<-142218078, -28>>,
    <<-143612330, -28>>, <<-145001176, -28>>, <<-146384562, -28>>, <<-147762437, -28>>,
    <<-149134749, -28>>, <<-150501446, -28>>, <<-151862477, -28>>, <<-153217790, -28>>,
    <<-154567334, -28>>, <<-155911060, -28>>, <<-157248915, -28>>, <<-158580850, -28>>,
    <<-159906814, -28>>, <<-161226759, -28>>, <<-162540633, -28>>, <<-163848387, -28>>,
    <<-165149973, -28>>, <<-166445340, -28>>, <<-167734442, -28>>, <<-169017228, -28>>,
    <<-170293651, -28>>, <<-171563662, -28>>, <<-172827214, -28>>, <<-174084259, -28>>,
    <<-175334750, -28>>, <<-176578640, -28>>, <<-177815881, -28>>, <<-179046428, -28>>,
    <<-180270234, -28>>, <<-181487253, -28>>, <<-182697439, -28>>, <<-183900747, -28>>,
    <<-185097131, -28>>, <<-186286546, -28>>, <<-187468947, -28>>, <<-188644290, -28>>,
    <<-189812531, -28>>, <<-190973626, -28>>, <<-192127530, -28>>, <<-193274202, -28>>,
    <<-194413596, -28>>, <<-195545671, -28>>, <<-196670384, -28>>, <<-197787692, -28>>,
    <<-198897553, -28>>, <<-199999926, -28>>, <<-201094770, -28>>, <<-202182042, -28>>,
    <<-203261702, -28>>, <<-204333709, -28>>, <<-205398024, -28>>, <<-206454605, -28>>,
    <<-207503414, -28>>, <<-208544410, -28>>, <<-209577554, -28>>, <<-210602808, -28>>,
    <<-211620133, -28>>, <<-212629490, -28>>, <<-213630842, -28>>, <<-214624151, -28>>,
    <<-215609380, -28>>, <<-216586491, -28>>, <<-217555448, -28>>, <<-218516213, -28>>,
    <<-219468752, -28>>, <<-220413028, -28>>, <<-221349006, -28>>, <<-222276649, -28>>,
    <<-223195925, -28>>, <<-224106797, -28>>, <<-225009231, -28>>, <<-225903194, -28>>,
    <<-226788652, -28>>, <<-227665572, -28>>, <<-228533919, -28>>, <<-229393663, -28>>,
    <<-230244771, -28>>, <<-231087209, -28>>, <<-231920948, -28>>, <<-232745954, -28>>,
    <<-233562198, -28>>, <<-234369649, -28>>, <<-235168275, -28>>, <<-235958048, -28>>,
    <<-236738937, -28>>, <<-237510913, -28>>, <<-238273946, -28>>, <<-239028009, -28>>,
    <<-239773073, -28>>, <<-240509109, -28>>, <<-241236090, -28>>, <<-241953989, -28>>,
    <<-242662778, -28>>, <<-243362431, -28>>, <<-244052922, -28>>, <<-244734224, -28>>,
    <<-245406313, -28>>, <<-246069161, -28>>, <<-246722746, -28>>, <<-247367041, -28>>,
    <<-248002024, -28>>, <<-248627669, -28>>, <<-249243953, -28>>, <<-249850854, -28>>,
    <<-250448347, -28>>, <<-251036412, -28>>, <<-251615025, -28>>, <<-252184165, -28>>,
    <<-252743810, -28>>, <<-253293940, -28>>, <<-253834534, -28>>, <<-254365570, -28>>,
    <<-254887030, -28>>, <<-255398894, -28>>, <<-255901142, -28>>, <<-256393755, -28>>,
    <<-256876715, -28>>, <<-257350004, -28>>, <<-257813604, -28>>, <<-258267498, -28>>,
    <<-258711668, -28>>, <<-259146097, -28>>, <<-259570770, -28>>, <<-259985670, -28>>,
    <<-260390782, -28>>, <<-260786090, -28>>, <<-261171580, -28>>, <<-261547237, -28>>,
    <<-261913046, -28>>, <<-262268995, -28>>, <<-262615070, -28>>, <<-262951257, -28>>,
    <<-263277544, -28>>, <<-263593919, -28>>, <<-263900370, -28>>, <<-264196885, -28>>,
    <<-264483453, -28>>, <<-264760064, -28>>, <<-265026706, -28>>, <<-265283371, -28>>,
    <<-265530048, -28>>, <<-265766727, -28>>, <<-265993401, -28>>, <<-266210060, -28>>,
    <<-266416696, -28>>, <<-266613302, -28>>, <<-266799871, -28>>, <<-266976394, -28>>,
    <<-267142866, -28>>, <<-267299280, -28>>, <<-267445630, -28>>, <<-267581912, -28>>,
    <<-267708119, -28>>, <<-267824246, -28>>, <<-267930291, -28>>, <<-268026248, -28>>,
    <<-268112114, -28>>, <<-268187885, -28>>, <<-268253560, -28>>, <<-268309135, -28>>,
    <<-268354608, -28>>, <<-268389978, -28>>, <<-268415243, -28>>, <<-268430403, -28>>,
    <<-134217728, -27>>, <<-268430403, -28>>, <<-268415243, -28>>, <<-268389978, -28>>,
    <<-268354608, -28>>, <<-268309135, -28>>, <<-268253560, -28>>, <<-268187885, -28>>,
    <<-268112114, -28>>, <<-268026248, -28>>, <<-267930291, -28>>, <<-267824246, -28>>,
    <<-267708119, -28>>, <<-267581912, -28>>, <<-267445630, -28>>, <<-267299280, -28>>,
    <<-267142866, -28>>, <<-266976394, -28>>, <<-266799871, -28>>, <<-266613302, -28>>,
    <<-266416696, -28>>, <<-266210060, -28>>, <<-265993401, -28>>, <<-265766727, -28>>,
    <<-265530048, -28>>, <<-265283371, -28>>, <<-265026706, -28>>, <<-264760064, -28>>,
    <<-264483453, -28>>, <<-264196885, -28>>, <<-263900370, -28>>, <<-263593919, -28>>,
    <<-263277544, -28>>, <<-262951257, -28>>, <<-262615070, -28>>, <<-262268995, -28>>,
    <<-261913046, -28>>, <<-261547237, -28>>, <<-261171580, -28>>, <<-260786090, -28>>,
    <<-260390782, -28>>, <<-259985670, -28>>, <<-259570770, -28>>, <<-259146097, -28>>,
    <<-258711668, -28>>, <<-258267498, -28>>, <<-257813604, -28>>, <<-257350004, -28>>,
    <<-256876715, -28>>, <<-256393755, -28>>, <<-255901142, -28>>, <<-255398894, -28>>,
    <<-254887030, -28>>, <<-254365570, -28>>, <<-253834534, -28>>, <<-253293940, -28>>,
    <<-252743810, -28>>, <<-252184165, -28>>, <<-251615025, -28>>, <<-251036412, -28>>,
    <<-250448347, -28>>, <<-249850854, -28>>, <<-249243953, -28>>, <<-248627669, -28>>,
    <<-248002024, -28>>, <<-247367041, -28>>, <<-246722746, -28>>, <<-246069161, -28>>,
    <<-245406313, -28>>, <<-244734224, -28>>, <<-244052922, -28>>, <<-243362431, -28>>,
    <<-242662778, -28>>, <<-241953989, -28>>, <<-241236090, -28>>, <<-240509109, -28>>,
    <<-239773073, -28>>, <<-239028009, -28>>, <<-238273946, -28>>, <<-237510913, -28>>,
    <<-236738937, -28>>, <<-235958048, -28>>, <<-235168275, -28>>, <<-234369649, -28>>,
    <<-233562198, -28>>, <<-232745954, -28>>, <<-231920948, -28>>, <<-231087209, -28>>,
    <<-230244771, -28>>, <<-229393663, -28>>, <<-228533919, -28>>, <<-227665572, -28>>,
    <<-226788652, -28>>, <<-225903194, -28>>, <<-225009231, -28>>, <<-224106797, -28>>,
    <<-223195925, -28>>, <<-222276649, -28>>, <<-221349006, -28>>, <<-220413028, -28>>,
    <<-219468752, -28>>, <<-218516213, -28>>, <<-217555448, -28>>, <<-216586491, -28>>,
    <<-215609380, -28>>, <<-214624151, -28>>, <<-213630842, -28>>, <<-212629490, -28>>,
    <<-211620133, -28>>, <<-210602808, -28>>, <<-209577554, -28>>, <<-208544410, -28>>,
    <<-207503414, -28>>, <<-206454605, -28>>, <<-205398024, -28>>, <<-204333709, -28>>,
    <<-203261702, -28>>, <<-202182042, -28>>, <<-201094770, -28>>, <<-199999926, -28>>,
    <<-198897553, -28>>, <<-197787692, -28>>, <<-196670384, -28>>, <<-195545671, -28>>,
    <<-194413596, -28>>, <<-193274202, -28>>, <<-192127530, -28>>, <<-190973626, -28>>,
    <<-189812531, -28>>, <<-188644290, -28>>, <<-187468947, -28>>, <<-186286546, -28>>,
    <<-185097131, -28>>, <<-183900747, -28>>, <<-182697439, -28>>, <<-181487253, -28>>,
    <<-180270234, -28>>, <<-179046428, -28>>, <<-177815881, -28>>, <<-176578640, -28>>,
    <<-175334750, -28>>, <<-174084259, -28>>, <<-172827214, -28>>, <<-171563662, -28>>,
    <<-170293651, -28>>, <<-169017228, -28>>, <<-167734442, -28>>, <<-166445340, -28>>,
    <<-165149973, -28>>, <<-163848387, -28>>, <<-162540633, -28>>, <<-161226759, -28>>,
    <<-159906814, -28>>, <<-158580850, -28>>, <<-157248915, -28>>, <<-155911060, -28>>,
    <<-154567334, -28>>, <<-153217790, -28>>, <<-151862477, -28>>, <<-150501446, -28>>,
    <<-149134749, -28>>, <<-147762437, -28>>, <<-146384562, -28>>, <<-145001176, -28>>,
    <<-143612330, -28>>, <<-142218078, -28>>, <<-140818471, -28>>, <<-139413562, -28>>,
    <<-138003405, -28>>, <<-136588051, -28>>, <<-135167556, -28>>, <<-267483942, -29>>,
    <<-264622702, -29>>, <<-261751499, -29>>, <<-258870441, -29>>, <<-255979637, -29>>,
    <<-253079196, -29>>, <<-250169226, -29>>, <<-247249838, -29>>, <<-244321140, -29>>,
    <<-241383245, -29>>, <<-238436261, -29>>, <<-235480300, -29>>, <<-232515474, -29>>,
    <<-229541893, -29>>, <<-226559670, -29>>, <<-223568918, -29>>, <<-220569748, -29>>,
    <<-217562274, -29>>, <<-214546609, -29>>, <<-211522866, -29>>, <<-208491159, -29>>,
    <<-205451603, -29>>, <<-202404312, -29>>, <<-199349401, -29>>, <<-196286984, -29>>,
    <<-193217176, -29>>, <<-190140095, -29>>, <<-187055855, -29>>, <<-183964572, -29>>,
    <<-180866363, -29>>, <<-177761344, -29>>, <<-174649633, -29>>, <<-171531347, -29>>,
    <<-168406602, -29>>, <<-165275517, -29>>, <<-162138209, -29>>, <<-158994797, -29>>,
    <<-155845399, -29>>, <<-152690134, -29>>, <<-149529120, -29>>, <<-146362476, -29>>,
    <<-143190321, -29>>, <<-140012776, -29>>, <<-136829959, -29>>, <<-267283981, -30>>,
    <<-260897982, -30>>, <<-254502159, -30>>, <<-248096755, -30>>, <<-241682010, -30>>,
    <<-235258165, -30>>, <<-228825464, -30>>, <<-222384147, -30>>, <<-215934457, -30>>,
    <<-209476638, -30>>, <<-203010932, -30>>, <<-196537583, -30>>, <<-190056834, -30>>,
    <<-183568930, -30>>, <<-177074115, -30>>, <<-170572633, -30>>, <<-164064728, -30>>,
    <<-157550647, -30>>, <<-151030634, -30>>, <<-144504935, -30>>, <<-137973796, -30>>,
    <<-262874923, -31>>, <<-249792358, -31>>, <<-236700388, -31>>, <<-223599506, -31>>,
    <<-210490206, -31>>, <<-197372981, -31>>, <<-184248325, -31>>, <<-171116733, -31>>,
    <<-157978697, -31>>, <<-144834714, -31>>, <<-263370557, -32>>, <<-237061769, -32>>,
    <<-210744057, -32>>, <<-184418409, -32>>, <<-158085819, -32>>, <<-263494553, -33>>,
    <<-210807548, -33>>, <<-158112606, -33>>, <<-210823422, -34>>, <<-210827391, -35>>
  >>

\* math.cos(i * angle_scale)
CosTab == <<
    <<134217728, -27>>, <<268430403, -28>>, <<268415243, -28>>, <<268389978, -28>>,
    <<268354608, -28>>, <<268309135, -28>>, <<268253560, -28>>, <<268187885, -28>>,
    <<268112114, -28>>, <<268026248, -28>>, <<267930291, -28>>, <<267824246, -28>>,
    <<267708119, -28>>, <<267581912, -28>>, <<267445630, -28>>, <<267299280, -28>>,
    <<267142866, -28>>, <<266976394, -28>>, <<266799871, -28>>, <<266613302, -28>>,
    <<266416696, -28>>, <<266210060, -28>>, <<265993401, -28>>, <<265766727, -28>>,
    <<265530048, -28>>, <<265283371, -28>>, <<265026706, -28>>, <<264760064, -28>>,
    <<264483453, -28>>, <<264196885, -28>>, <<263900370, -28>>, <<263593919, -28>>,
    <<263277544, -28>>, <<262951257, -28>>, <<262615070, -28>>, <<262268995, -28>>,
    <<261913046, -28>>, <<261547237, -28>>, <<261171580, -28>>, <<260786090, -28>>,
    <<260390782, -28>>, <<259985670, -28>>, <<259570770, -28>>, <<259146097, -28>>,
    <<258711668, -28>>, <<258267498, -28>>, <<257813604, -28>>, <<257350004, -28>>,
    <<256876715, -28>>, <<256393755, -28>>, <<255901142, -28>>, <<255398894, -28>>,
    <<254887030, -28>>, <<254365570, -28>>, <<253834534, -28>>, <<253293940, -28>>,
    <<252743810, -28>>, <<252184165, -28>>, <<251615025, -28>>, <<251036412, -28>>,
    <<250448347, -28>>, <<249850854, -28>>, <<249243953, -28>>, <<248627669, -28>>,
    <<248002024, -28>>, <<247367041, -28>>, <<246722746, -28>>, <<246069161, -28>>,
    <<245406313, -28>>, <<244734224, -28>>, <<244052922, -28>>, <<243362431, -28>>,
    <<242662778, -28>>, <<241953989, -28>>, <<241236090, -28>>, <<240509109, -28>>,
    <<239773073, -28>>, <<239028009, -28>>, <<238273946, -28>>, <<237510913, -28>>,
    <<236738937, -28>>, <<235958048, -28>>, <<235168275, -28>>, <<234369649, -28>>,
    <<233562198, -28>>, <<232745954, -28>>, <<231920948, -28>>, <<231087209, -28>>,
    <<230244771, -28>>, <<229393663, -28>>, <<228533919, -28>>, <<227665572, -28>>,
    <<226788652, -28>>, <<225903194, -28>>, <<225009231, -28>>, <<224106797, -28>>,
    <<223195925, -28>>, <<222276649, -28>>, <<221349006, -28>>, <<220413028, -28>>,
    <<219468752, -28>>, <<218516213, -28>>, <<217555448, -28>>, <<216586491, -28>>,
    <<215609380, -28>>, <<214624151, -28>>, <<213630842, -28>>, <<212629490, -28>>,
    <<211620133, -28>>, <<210602808, -28>>, <<209577554, -28>>, <<208544410, -28>>,
    <<207503414, -28>>, <<206454605, -28>>, <<205398024, -28>>, <<204333709, -28>>,
    <<203261702, -28>>, <<202182042, -28>>, <<201094770, -28>>, <<199999926, -28>>,
    <<198897553, -28>>, <<197787692, -28>>, <<196670384, -28>>, <<195545671, -28>>,
    <<194413596, -28>>, <<193274202, -28>>, <<192127530, -28>>, <<190973626, -28>>,
    <<189812531, -28>>, <<188644290, -28>>, <<187468947, -28>>, <<186286546, -28>>,
    <<185097131, -28>>, <<183900747, -28>>, <<182697439, -28>>, <<181487253, -28>>,
    <<180270234, -28>>, <<179046428, -28>>, <<177815881, -28>>, <<176578640, -28>>,
    <<175334750, -28>>, <<174084259, -28>>, <<172827214, -28>>, <<171563662, -28>>,
    <<170293651, -28>>, <<169017228, -28>>, <<167734442, -28>>, <<166445340, -28>>,
    <<165149973, -28>>, <<163848387, -28>>, <<162540633, -28>>, <<161226759, -28>>,
    <<159906814, -28>>, <<158580850, -28>>, <<157248915, -28>>, <<155911060, -28>>,
    <<154567334, -28>>, <<153217790, -28>>, <<151862477, -28>>, <<150501446, -28>>,
    <<149134749, -28>>, <<147762437, -28>>, <<146384562, -28>>, <<145001176, -28>>,
    <<143612330, -28>>, <<142218078, -28>>, <<140818471, -28>>, <<139413562, -28>>,
    <<138003405, -28>>, <<136588051, -28>>, <<135167556, -28>>, <<267483942, -29>>,
    <<264622702, -29>>, <<261751499, -29>>, <<258870441, -29>>, <<255979637, -29>>,
    <<253079196, -29>>, <<250169226, -29>>, <<247249838, -29>>, <<244321140, -29>>,
    <<241383245, -29>>, <<238436261, -29>>, <<235480300, -29>>, <<232515474, -29>>,
    <<229541893, -29>>, <<226559670, -29>>, <<223568918, -29>>, <<220569748, -29>>,
    <<217562274, -29>>, <<214546609, -29>>, <<211522866, -29>>, <<208491159, -29>>,
    <<205451603, -29>>, <<202404312, -29>>, <<199349401, -29>>, <<196286984, -29>>,
    <<193217176, -29>>, <<190140095, -29>>, <<187055855, -29>>, <<183964572, -29>>,
    <<180866363, -29>>, <<177761344, -29>>, <<174649633, -29>>, <<171531347, -29>>,
    <<168406602, -29>>, <<165275517, -29>>, <<162138209, -29>>, <<158994797, -29>>,
    <<155845399, -29>>, <<152690134, -29>>, <<149529120, -29>>, <<146362476, -29>>,
    <<143190321, -29>>, <<140012776, -29>>, <<136829959, -29>>, <<267283981, -30>>,
    <<260897982, -30>>, <<254502159, -30>>, <<248096755, -30>>, <<241682010, -30>>,
    <<235258165, -30>>, <<228825464, -30>>, <<222384147, -30>>, <<215934457, -30>>,
    <<209476638, -30>>, <<203010932, -30>>, <<196537583, -30>>, <<190056834, -30>>,
    <<183568930, -30>>, <<177074115, -30>>, <<170572633, -30>>, <<164064728, -30>>,
    <<157550647, -30>>, <<151030634, -30>>, <<144504935, -30>>, <<137973796, -30>>,
    <<262874923, -31>>, <<249792358, -31>>, <<236700388, -31>>, <<223599506, -31>>,
    <<210490206, -31>>, <<197372981, -31>>, <<184248325, -31>>, <<171116733, -31>>,
    <<157978697, -31>>, <<144834714, -31>>, <<263370557, -32>>, <<237061769, -32>>,
    <<210744057, -32>>, <<184418409, -32>>, <<158085819, -32>>, <<263494553, -33>>,
    <<210807548, -33>>, <<158112606, -33>>, <<210823422, -34>>, <<210827391, -35>>,
    <<148050714, -81>>, <<-210827391, -35>>, <<-210823422, -34>>, <<-158112606, -33>>,
    <<-210807548, -33>>, <<-263494553, -33>>, <<-158085819, -32>>, <<-184418409, -32>>,
    <<-210744057, -32>>, <<-237061769, -32>>, <<-263370557, -32>>, <<-144834714, -31>>,
    <<-157978697, -31>>, <<-171116733, -31>>, <<-184248325, -31>>, <<-197372981, -31>>,
    <<-210490206, -31>>, <<-223599506, -31>>, <<-236700388, -31>>, <<-249792358, -31>>,
    <<-262874923, -31>>, <<-137973796, -30>>, <<-144504935, -30>>, <<-151030634, -30>>,
    <<-157550647, -30>>, <<-164064728, -30>>, <<-170572633, -30>>, <<-177074115, -30>>,
    <<-183568930, -30>>, <<-190056834, -30>>, <<-196537583, -30>>, <<-203010932, -30>>,
    <<-209476638, -30>>, <<-215934457, -30>>, <<-222384147, -30>>, <<-228825464, -30>>,
    <<-235258165, -30>>, <<-241682010, -30>>, <<-248096755, -30>>, <<-254502159, -30>>,
    <<-260897982, -30>>, <<-267283981, -30>>, <<-136829959, -29>>, <<-140012776, -29>>,
    <<-143190321, -29>>, <<-146362476, -29>>, <<-149529120, -29>>, <<-152690134, -29>>,
    <<-155845399, -29>>, <<-158994797, -29>>, <<-162138209, -29>>, <<-165275517, -29>>,
    <<-168406602, -29>>, <<-171531347, -29>>, <<-174649633, -29>>, <<-177761344, -29>>,
    <<-180866363, -29>>, <<-183964572, -29>>, <<-187055855, -29>>, <<-190140095, -29>>,
    <<-193217176, -29>>, <<-196286984, -29>>, <<-199349401, -29>>, <<-202404312, -29>>,
    <<-205451603, -29>>, <<-208491159, -29>>, <<-211522866, -29>>, <<-214546609, -29>>,
    <<-217562274, -29>>, <<-220569748, -29>>, <<-223568918, -29>>, <<-226559670, -29>>,
    <<-229541893, -29>>, <<-232515474, -29>>, <<-235480300, -29>>, <<-238436261, -29>>,
    <<-241383245, -29>>, <<-244321140, -29>>, <<-247249838, -29>>, <<-250169226, -29>>,
    <<-253079196, -29>>, <<-255979637, -29>>, <<-258870441, -29>>, <<-261751499, -29>>,
    <<-264622702, -29>>, <<-267483942, -29>>, <<-135167556, -28>>, <<-136588051, -28>>,
    <<-138003405, -28>>, <<-139413562, -28>>, <<-140818471, -28>>, <<-142218078, -28>>,
    <<-143612330, -28>>, <<-145001176, -28>>, <<-146384562, -28>>, <<-147762437, -28>>,
    <<-149134749, -28>>, <<-150501446, -28>>, <<-151862477, -28>>, <<-153217790, -28>>,
    <<-154567334, -28>>, <<-155911060, -28>>, <<-157248915, -28>>, <<-158580850, -28>>,
    <<-159906814, -28>>, <<-161226759, -28>>, <<-162540633, -28>>, <<-163848387, -28>>,
    <<-165149973, -28>>, <<-166445340, -28>>, <<-167734442, -28>>, <<-169017228, -28>>,
    <<-170293651, -28>>, <<-171563662, -28>>, <<-172827214, -28>>, <<-174084259, -28>>,
    <<-175334750, -28>>, <<-176578640, -28>>, <<-177815881, -28>>, <<-179046428, -28>>,
    <<-180270234, -28>>, <<-181487253, -28>>, <<-182697439, -28>>, <<-183900747, -28>>,
    <<-185097131, -28>>, <<-186286546, -28>>, <<-187468947, -28>>, <<-188644290, -28>>,
    <<-189812531, -28>>, <<-190973626, -28>>, <<-192127530, -28>>, <<-193274202, -28>>,
    <<-194413596, -28>>, <<-195545671, -28>>, <<-196670384, -28>>, <<-197787692, -28>>,
    <<-198897553, -28>>, <<-199999926, -28>>, <<-201094770, -28>>, <<-202182042, -28>>,
    <<-203261702, -28>>, <<-204333709, -28>>, <<-205398024, -28>>, <<-206454605, -28>>,
    <<-207503414, -28>>, <<-208544410, -28>>, <<-209577554, -28>>, <<-210602808, -28>>,
    <<-211620133, -28>>, <<-212629490, -28>>, <<-213630842, -28>>, <<-214624151, -28>>,
    <<-215609380, -28>>, <<-216586491, -28>>, <<-217555448, -28>>, <<-218516213, -28>>,
    <<-219468752, -28>>, <<-220413028, -28>>, <<-221349006, -28>>, <<-222276649, -28>>,
    <<-223195925, -28>>, <<-224106797, -28>>, <<-225009231, -28>>, <<-225903194, -28>>,
    <<-226788652, -28>>, <<-227665572, -28>>, <<-228533919, -28>>, <<-229393663, -28>>,
    <<-230244771, -28>>, <<-231087209, -28>>, <<-231920948, -28>>, <<-232745954, -28>>,
    <<-233562198, -28>>, <<-234369649, -28>>, <<-235168275, -28>>, <<-235958048, -28>>,
    <<-236738937, -28>>, <<-237510913, -28>>, <<-238273946, -28>>, <<-239028009, -28>>,
    <<-239773073, -28>>, <<-240509109, -28>>, <<-241236090, -28>>, <<-241953989, -28>>,
    <<-242662778, -28>>, <<-243362431, -28>>, <<-244052922, -28>>, <<-244734224, -28>>,
    <<-245406313, -28>>, <<-246069161, -28>>, <<-246722746, -28>>, <<-247367041, -28>>,
    <<-248002024, -28>>, <<-248627669, -28>>, <<-249243953, -28>>, <<-249850854, -28>>,
    <<-250448347, -28>>, <<-251036412, -28>>, <<-251615025, -28>>, <<-252184165, -28>>,
    <<-252743810, -28>>, <<-253293940, -28>>, <<-253834534, -28>>, <<-254365570, -28>>,
    <<-254887030, -28>>, <<-255398894, -28>>, <<-255901142, -28>>, <<-256393755, -28>>,
    <<-256876715, -28>>, <<-257350004, -28>>, <<-257813604, -28>>, <<-258267498, -28>>,
    <<-258711668, -28>>, <<-259146097, -28>>, <<-259570770, -28>>, <<-259985670, -28>>,
    <<-260390782, -28>>, <<-260786090, -28>>, <<-261171580, -28>>, <<-261547237, -28>>,
    <<-261913046, -28>>, <<-262268995, -28>>, <<-262615070, -28>>, <<-262951257, -28>>,
    <<-263277544, -28>>, <<-263593919, -28>>, <<-263900370, -28>>, <<-264196885, -28>>,
    <<-264483453, -28>>, <<-264760064, -28>>, <<-265026706, -28>>, <<-265283371, -28>>,
    <<-265530048, -28>>, <<-265766727, -28>>, <<-265993401, -28>>, <<-266210060, -28>>,
    <<-266416696, -28>>, <<-266613302, -28>>, <<-266799871, -28>>, <<-266976394, -28>>,
    <<-267142866, -28>>, <<-267299280, -28>>, <<-267445630, -28>>, <<-267581912, -28>>,
    <<-267708119, -28>>, <<-267824246, -28>>, <<-267930291, -28>>, <<-268026248, -28>>,
    <<-268112114, -28>>, <<-268187885, -28>>, <<-268253560, -28>>, <<-268309135, -28>>,
    <<-268354608, -28>>, <<-268389978, -28>>, <<-268415243, -28>>, <<-268430403, -28>>,
    <<-134217728, -27>>, <<-268430403, -28>>, <<-268415243, -28>>, <<-268389978, -28>>,
    <<-268354608, -28>>, <<-268309135, -28>>, <<-268253560, -28>>, <<-268187885, -28>>,
    <<-268112114, -28>>, <<-268026248, -28>>, <<-267930291, -28>>, <<-267824246, -28>>,
    <<-267708119, -28>>, <<-267581912, -28>>, <<-267445630, -28>>, <<-267299280, -28>>,
    <<-267142866, -28>>, <<-266976394, -28>>, <<-266799871, -28>>, <<-266613302, -28>>,
    <<-266416696, -28>>, <<-266210060, -28>>, <<-265993401, -28>>, <<-265766727, -28>>,
    <<-265530048, -28>>, <<-265283371, -28>>, <<-265026706, -28>>, <<-264760064, -28>>,
    <<-264483453, -28>>, <<-264196885, -28>>, <<-263900370, -28>>, <<-263593919, -28>>,
    <<-263277544, -28>>, <<-262951257, -28>>, <<-262615070, -28>>, <<-262268995, -28>>,
    <<-261913046, -28>>, <<-261547237, -28>>, <<-261171580, -28>>, <<-260786090, -28>>,
    <<-260390782, -28>>, <<-259985670, -28>>, <<-259570770, -28>>, <<-259146097, -28>>,
    <<-258711668, -28>>, <<-258267498, -28>>, <<-257813604, -28>>, <<-257350004, -28>>,
    <<-256876715, -28>>, <<-256393755, -28>>, <<-255901142, -28>>, <<-255398894, -28>>,
    <<-254887030, -28>>, <<-254365570, -28>>, <<-253834534, -28>>, <<-253293940, -28>>,
    <<-252743810, -28>>, <<-252184165, -28>>, <<-251615025, -28>>, <<-251036412, -28>>,
    <<-250448347, -28>>, <<-249850854, -28>>, <<-249243953, -28>>, <<-248627669, -28>>,
    <<-248002024, -28>>, <<-247367041, -28>>, <<-246722746, -28>>, <<-246069161, -28>>,
    <<-245406313, -28>>, <<-244734224, -28>>, <<-244052922, -28>>, <<-243362431, -28>>,
    <<-242662778, -28>>, <<-241953989, -28>>, <<-241236090, -28>>, <<-240509109, -28>>,
    <<-239773073, -28>>, <<-239028009, -28>>, <<-238273946, -28>>, <<-237510913, -28>>,
    <<-236738937, -28>>, <<-235958048, -28>>, <<-235168275, -28>>, <<-234369649, -28>>,
    <<-233562198, -28>>, <<-232745954, -28>>, <<-231920948, -28>>, <<-231087209, -28>>,
    <<-230244771, -28>>, <<-229393663, -28>>, <<-228533919, -28>>, <<-227665572, -28>>,
    <<-226788652, -28>>, <<-225903194, -28>>, <<-225009231, -28>>, <<-224106797, -28>>,
    <<-223195925, -28>>, <<-222276649, -28>>, <<-221349006, -28>>, <<-220413028, -28>>,
    <<-219468752, -28>>, <<-218516213, -28>>, <<-217555448, -28>>, <<-216586491, -28>>,
    <<-215609380, -28>>, <<-214624151, -28>>, <<-213630842, -28>>, <<-212629490, -28>>,
    <<-211620133, -28>>, <<-210602808, -28>>, <<-209577554, -28>>, <<-208544410, -28>>,
    <<-207503414, -28>>, <<-206454605, -28>>, <<-205398024, -28>>, <<-204333709, -28>>,
    <<-203261702, -28>>, <<-202182042, -28>>, <<-201094770, -28>>, <<-199999926, -28>>,
    <<-198897553, -28>>, <<-197787692, -28>>, <<-196670384, -28>>, <<-195545671, -28>>,
    <<-194413596, -28>>, <<-193274202, -28>>, <<-192127530, -28>>, <<-190973626, -28>>,
    <<-189812531, -28>>, <<-188644290, -28>>, <<-187468947, -28>>, <<-186286546, -28>>,
    <<-185097131, -28>>, <<-183900747, -28>>, <<-182697439, -28>>, <<-181487253, -28>>,
    <<-180270234, -28>>, <<-179046428, -28>>, <<-177815881, -28>>, <<-176578640, -28>>,
    <<-175334750, -28>>, <<-174084259, -28>>, <<-172827214, -28>>, <<-171563662, -28>>,
    <<-170293651, -28>>, <<-169017228, -28>>, <<-167734442, -28>>, <<-166445340, -28>>,
    <<-165149973, -28>>, <<-163848387, -28>>, <<-162540633, -28>>, <<-161226759, -28>>,
    <<-159906814, -28>>, <<-158580850, -28>>, <<-157248915, -28>>, <<-155911060, -28>>,
    <<-154567334, -28>>, <<-153217790, -28>>, <<-151862477, -28>>, <<-150501446, -28>>,
    <<-149134749, -28>>, <<-147762437, -28>>, <<-146384562, -28>>, <<-145001176, -28>>,
    <<-143612330, -28>>, <<-142218078, -28>>, <<-140818471, -28>>, <<-139413562, -28>>,
    <<-138003405, -28>>, <<-136588051, -28>>, <<-135167556, -28>>, <<-267483942, -29>>,
    <<-264622702, -29>>, <<-261751499, -29>>, <<-258870441, -29>>, <<-255979637, -29>>,
    <<-253079196, -29>>, <<-250169226, -29>>, <<-247249838, -29>>, <<-244321140, -29>>,
    <<-241383245, -29>>, <<-238436261, -29>>, <<-235480300, -29>>, <<-232515474, -29>>,
    <<-229541893, -29>>, <<-226559670, -29>>, <<-223568918, -29>>, <<-220569748, -29>>,
    <<-217562274, -29>>, <<-214546609, -29>>, <<-211522866, -29>>, <<-208491159, -29>>,
    <<-205451603, -29>>, <<-202404312, -29>>, <<-199349401, -29>>, <<-196286984, -29>>,
    <<-193217176, -29>>, <<-190140095, -29>>, <<-187055855, -29>>, <<-183964572, -29>>,
    <<-180866363, -29>>, <<-177761344, -29>>, <<-174649633, -29>>, <<-171531347, -29>>,
    <<-168406602, -29>>, <<-165275517, -29>>, <<-162138209, -29>>, <<-158994797, -29>>,
    <<-155845399, -29>>, <<-152690134, -29>>, <<-149529120, -29>>, <<-146362476, -29>>,
    <<-143190321, -29>>, <<-140012776, -29>>, <<-136829959, -29>>, <<-267283981, -30>>,
    <<-260897982, -30>>, <<-254502159, -30>>, <<-248096755, -30>>, <<-241682010, -30>>,
    <<-235258165, -30>>, <<-228825464, -30>>, <<-222384147, -30>>, <<-215934457, -30>>,
    <<-209476638, -30>>, <<-203010932, -30>>, <<-196537583, -30>>, <<-190056834, -30>>,
    <<-183568930, -30>>, <<-177074115, -30>>, <<-170572633, -30>>, <<-164064728, -30>>,
    <<-157550647, -30>>, <<-151030634, -30>>, <<-144504935, -30>>, <<-137973796, -30>>,
    <<-262874923, -31>>, <<-249792358, -31>>, <<-236700388, -31>>, <<-223599506, -31>>,
    <<-210490206, -31>>, <<-197372981, -31>>, <<-184248325, -31>>, <<-171116733, -31>>,
    <<-157978697, -31>>, <<-144834714, -31>>, <<-263370557, -32>>, <<-237061769, -32>>,
    <<-210744057, -32>>, <<-184418409, -32>>, <<-158085819, -32>>, <<-263494553, -33>>,
    <<-210807548, -33>>, <<-158112606, -33>>, <<-210823422, -34>>, <<-210827391, -35>>,
    <<-222076070, -80>>, <<210827391, -35>>, <<210823422, -34>>, <<158112606, -33>>,
    <<210807548, -33>>, <<263494553, -33>>, <<158085819, -32>>, <<184418409, -32>>,
    <<210744057, -32>>, <<237061769, -32>>, <<263370557, -32>>, <<144834714, -31>>,
    <<157978697, -31>>, <<171116733, -31>>, <<184248325, -31>>, <<197372981, -31>>,
    <<210490206, -31>>, <<223599506, -31>>, <<236700388, -31>>, <<249792358, -31>>,
    <<262874923, -31>>, <<137973796, -30>>, <<144504935, -30>>, <<151030634, -30>>,
    <<157550647, -30>>, <<164064728, -30>>, <<170572633, -30>>, <<177074115, -30>>,
    <<183568930, -30>>, <<190056834, -30>>, <<196537583, -30>>, <<203010932, -30>>,
    <<209476638, -30>>, <<215934457, -30>>, <<222384147, -30>>, <<228825464, -30>>,
    <<235258165, -30>>, <<241682010, -30>>, <<248096755, -30>>, <<254502159, -30>>,
    <<260897982, -30>>, <<267283981, -30>>, <<136829959, -29>>, <<140012776, -29>>,
    <<143190321, -29>>, <<146362476, -29>>, <<149529120, -29>>, <<152690134, -29>>,
    <<155845399, -29>>, <<158994797, -29>>, <<162138209, -29>>, <<165275517, -29>>,
    <<168406602, -29>>, <<171531347, -29>>, <<174649633, -29>>, <<177761344, -29>>,
    <<180866363, -29>>, <<183964572, -29>>, <<187055855, -29>>, <<190140095, -29>>,
    <<193217176, -29>>, <<196286984, -29>>, <<199349401, -29>>, <<202404312, -29>>,
    <<205451603, -29>>, <<208491159, -29>>, <<211522866, -29>>, <<214546609, -29>>,
    <<217562274, -29>>, <<220569748, -29>>, <<223568918, -29>>, <<226559670, -29>>,
    <<229541893, -29>>, <<232515474, -29>>, <<235480300, -29>>, <<238436261, -29>>,
    <<241383245, -29>>, <<244321140, -29>>, <<247249838, -29>>, <<250169226, -29>>,
    <<253079196, -29>>, <<255979637, -29>>, <<258870441, -29>>, <<261751499, -29>>,
    <<264622702, -29>>, <<267483942, -29>>, <<135167556, -28>>, <<136588051, -28>>,
    <<138003405, -28>>, <<139413562, -28>>, <<140818471, -28>>, <<142218078, -28>>,
    <<143612330, -28>>, <<145001176, -28>>, <<146384562, -28>>, <<147762437, -28>>,
    <<149134749, -28>>, <<150501446, -28>>, <<151862477, -28>>, <<153217790, -28>>,
    <<154567334, -28>>, <<155911060, -28>>, <<157248915, -28>>, <<158580850, -28>>,
    <<159906814, -28>>, <<161226759, -28>>, <<162540633, -28>>, <<163848387, -28>>,
    <<165149973, -28>>, <<166445340, -28>>, <<167734442, -28>>, <<169017228, -28>>,
    <<170293651, -28>>, <<171563662, -28>>, <<172827214, -28>>, <<174084259, -28>>,
    <<175334750, -28>>, <<176578640, -28>>, <<177815881, -28>>, <<179046428, -28>>,
    <<180270234, -28>>, <<181487253, -28>>, <<182697439, -28>>, <<183900747, -28>>,
    <<185097131, -28>>, <<186286546, -28>>, <<187468947, -28>>, <<188644290, -28>>,
    <<189812531, -28>>, <<190973626, -28>>, <<192127530, -28>>, <<193274202, -28>>,
    <<194413596, -28>>, <<195545671, -28>>, <<196670384, -28>>, <<197787692, -28>>,
    <<198897553, -28>>, <<199999926, -28>>, <<201094770, -28>>, <<202182042, -28>>,
    <<203261702, -28>>, <<204333709, -28>>, <<205398024, -28>>, <<206454605, -28>>,
    <<207503414, -28>>, <<208544410, -28>>, <<209577554, -28>>, <<210602808, -28>>,
    <<211620133, -28>>, <<212629490, -28>>, <<213630842, -28>>, <<214624151, -28>>,
    <<215609380, -28>>, <<216586491, -28>>, <<217555448, -28>>, <<218516213, -28>>,
    <<219468752, -28>>, <<220413028, -28>>, <<221349006, -28>>, <<222276649, -28>>,
    <<223195925, -28>>, <<224106797, -28>>, <<225009231, -28>>, <<225903194, -28>>,
    <<226788652, -28>>, <<227665572, -28>>, <<228533919, -28>>, <<229393663, -28>>,
    <<230244771, -28>>, <<231087209, -28>>, <<231920948, -28>>, <<232745954, -28>>,
    <<233562198, -28>>, <<234369649, -28>>, <<235168275, -28>>, <<235958048, -28>>,
    <<236738937, -28>>, <<237510913, -28>>, <<238273946, -28>>, <<239028009, -28>>,
    <<239773073, -28>>, <<240509109, -28>>, <<241236090, -28>>, <<241953989, -28>>,
    <<242662778, -28>>, <<243362431, -28>>, <<244052922, -28>>, <<244734224, -28>>,
    <<245406313, -28>>, <<246069161, -28>>, <<246722746, -28>>, <<247367041, -28>>,
    <<248002024, -28>>, <<248627669, -28>>, <<249243953, -28>>, <<249850854, -28>>,
    <<250448347, -28>>, <<251036412, -28>>, <<251615025, -28>>, <<252184165, -28>>,
    <<252743810, -28>>, <<253293940, -28>>, <<253834534, -28>>, <<254365570, -28>>,
    <<254887030, -28>>, <<255398894, -28>>, <<255901142, -28>>, <<256393755, -28>>,
    <<256876715, -28>>, <<257350004, -28>>, <<257813604, -28>>, <<258267498, -28>>,
    <<258711668, -28>>, <<259146097, -28>>, <<259570770, -28>>, <<259985670, -28>>,
    <<260390782, -28>>, <<260786090, -28>>, <<261171580, -28>>, <<261547237, -28>>,
    <<261913046, -28>>, <<262268995, -28>>, <<262615070, -28>>, <<262951257, -28>>,
    <<263277544, -28>>, <<263593919, -28>>, <<263900370, -28>>, <<264196885, -28>>,
    <<264483453, -28>>, <<264760064, -28>>, <<265026706, -28>>, <<265283371, -28>>,
    <<265530048, -28>>, <<265766727, -28>>, <<265993401, -28>>, <<266210060, -28>>,
    <<266416696, -28>>, <<266613302, -28>>, <<266799871, -28>>, <<266976394, -28>>,
    <<267142866, -28>>, <<267299280, -28>>, <<267445630, -28>>, <<267581912, -28>>,
    <<267708119, -28>>, <<267824246, -28>>, <<267930291, -28>>, <<268026248, -28>>,
    <<268112114, -28>>, <<268187885, -28>>, <<268253560, -28>>, <<268309135, -28>>,
    <<268354608, -28>>, <<268389978, -28>>, <<268415243, -28>>, <<268430403, -28>>
  >>

\* math.tan(i * angle_scale)
TanTab == <<
    <<0, 0>>, <<210831360, -35>>, <<210839298, -34>>, <<158139398, -33>>,
    <<210871058, -33>>, <<263618607, -33>>, <<158193013, -32>>, <<184588650, -32>>,
    <<210998213, -32>>, <<237423703, -32>>, <<263867125, -32>>, <<145165246, -31>>,
    <<158407910, -31>>, <<171662568, -31>>, <<184930235, -31>>, <<198211930, -31>>,
    <<211508678, -31>>, <<224821508, -31>>, <<238151452, -31>>, <<251499550, -31>>,
    <<264866845, -31>>, <<139127195, -30>>, <<145831619, -30>>, <<152547227, -30>>,
    <<159274554, -30>>, <<166014138, -30>>, <<172766522, -30>>, <<179532253, -30>>,
    <<186311880, -30>>, <<193105960, -30>>, <<199915050, -30>>, <<206739717, -30>>,
    <<213580528, -30>>, <<220438059, -30>>, <<227312888, -30>>, <<234205601, -30>>,
    <<241116790, -30>>, <<248047050, -30>>, <<254996985, -30>>, <<261967205, -30>>,
    <<134479163, -29>>, <<137985485, -29>>, <<141502884, -29>>, <<145031678, -29>>,
    <<148572191, -29>>, <<152124748, -29>>, <<155689679, -29>>, <<159267321, -29>>,
    <<162858011, -29>>, <<166462092, -29>>, <<170079914, -29>>, <<173711828, -29>>,
    <<177358193, -29>>, <<181019370, -29>>, <<184695728, -29>>, <<188387640, -29>>,
    <<192095484, -29>>, <<195819645, -29>>, <<199560514, -29>>, <<203318485, -29>>,
    <<207093963, -29>>, <<210887356, -29>>, <<214699079, -29>>, <<218529555, -29>>,
    <<222379213, -29>>, <<226248489, -29>>, <<230137828, -29>>, <<234047681, -29>>,
    <<237978508, -29>>, <<241930776, -29>>, <<245904961, -29>>, <<249901548, -29>>,
    <<253921031, -29>>, <<257963911, -29>>, <<262030701, -29>>, <<266121922, -29>>,
    <<135119054, -28>>, <<137189899, -28>>, <<139273773, -28>>, <<141370958, -28>>,
    <<143481741, -28>>, <<145606415, -28>>, <<147745279, -28>>, <<149898640, -28>>,
    <<152066808, -28>>, <<154250101, -28>>, <<156448845, -28>>, <<158663372, -28>>,
    <<160894021, -28>>, <<163141137, -28>>, <<165405076, -28>>, <<167686200, -28>>,
    <<169984878, -28>>, <<172301489, -28>>, <<174636420, -28>>, <<176990068, -28>>,
    <<179362837, -28>>, <<181755143, -28>>, <<184167410, -28>>, <<186600074, -28>>,
    <<189053578, -28>>, <<191528380, -28>>, <<194024947, -28>>, <<196543758, -28>>,
    <<199085303, -28>>, <<201650085, -28>>, <<204238622, -28>>, <<206851441, -28>>,
    <<209489086, -28>>, <<212152114, -28>>, <<214841096, -28>>, <<217556619, -28>>,
    <<220299285, -28>>, <<223069714, -28>>, <<225868541, -28>>, <<228696418, -28>>,
    <<231554017, -28>>, <<234442027, -28>>, <<237361157, -28>>, <<240312137, -28>>,
    <<243295716, -28>>, <<246312666, -28>>, <<249363781, -28>>, <<252449878, -28>>,
    <<255571800, -28>>, <<258730412, -28>>, <<261926608, -28>>, <<265161306, -28>>,
    <<134217728, -27>>, <<135875017, -27>>, <<137553024, -27>>, <<139252269, -27>>,
    <<140973288, -27>>, <<142716634, -27>>, <<144482879, -27>>, <<146272612, -27>>,
    <<148086443, -27>>, <<149925000, -27>>, <<151788934, -27>>, <<153678918, -27>>,
    <<155595647, -27>>, <<157539840, -27>>, <<159512241, -27>>, <<161513620, -27>>,
    <<163544775, -27>>, <<165606531, -27>>, <<167699745, -27>>, <<169825303, -27>>,
    <<171984124, -27>>, <<174177162, -27>>, <<176405406, -27>>, <<178669882, -27>>,
    <<180971657, -27>>, <<183311836, -27>>, <<185691570, -27>>, <<188112054, -27>>,
    <<190574531, -27>>, <<193080294, -27>>, <<195630687, -27>>, <<198227111, -27>>,
    <<200871025, -27>>, <<203563948, -27>>, <<206307464, -27>>, <<209103225, -27>>,
    <<211952954, -27>>, <<214858450, -27>>, <<217821592, -27>>, <<220844341, -27>>,
    <<223928751, -27>>, <<227076965, -27>>, <<230291230, -27>>, <<233573896, -27>>,
    <<236927424, -27>>, <<240354396, -27>>, <<243857517, -27>>, <<247439628, -27>>,
    <<251103708, -27>>, <<254852889, -27>>, <<258690465, -27>>, <<262619896, -27>>,
    <<266644829, -27>>, <<135384551, -26>>, <<137498381, -26>>, <<139666037, -26>>,
    <<141889772, -26>>, <<144171964, -26>>, <<146515129, -26>>, <<148921925, -26>>,
    <<151395171, -26>>, <<153937851, -26>>, <<156553128, -26>>, <<159244365, -26>>,
    <<162015130, -26>>, <<164869219, -26>>, <<167810673, -26>>, <<170843799, -26>>,
    <<173973188, -26>>, <<177203745, -26>>, <<180540711, -26>>, <<183989696, -26>>,
    <<187556710, -26>>, <<191248200, -26>>, <<195071090, -26>>, <<199032827, -26>>,
    <<203141431, -26>>, <<207405548, -26>>, <<211834520, -26>>, <<216438448, -26>>,
    <<221228277, -26>>, <<226215879, -26>>, <<231414164, -26>>, <<236837185, -26>>,
    <<242500275, -26>>, <<248420190, -26>>, <<254615285, -26>>, <<261105703, -26>>,
    <<267913603, -26>>, <<137531707, -25>>, <<141291070, -25>>, <<145249851, -25>>,
    <<149424671, -25>>, <<153834054, -25>>, <<158498699, -25>>, <<163441818, -25>>,
    <<168689521, -25>>, <<174271289, -25>>, <<180220533, -25>>, <<186575272, -25>>,
    <<193378957, -25>>, <<200681473, -25>>, <<208540385, -25>>, <<217022462, -25>>,
    <<226205606, -25>>, <<236181265, -25>>, <<247057513, -25>>, <<258963010, -25>>,
    <<136026074, -24>>, <<143255911, -24>>, <<151285229, -24>>, <<160255117, -24>>,
    <<170341933, -24>>, <<181769064, -24>>, <<194823724, -24>>, <<209881498, -24>>,
    <<227443168, -24>>, <<248191616, -24>>, <<136541439, -23>>, <<151748948, -23>>,
    <<170754039, -23>>, <<195184249, -23>>, <<227752139, -23>>, <<136670159, -22>>,
    <<170857003, -22>>, <<227829355, -22>>, <<170882740, -21>>, <<170889174, -20>>,
    <<243354430, 26>>, <<-170889174, -20>>, <<-170882740, -21>>, <<-227829355, -22>>,
    <<-170857003, -22>>, <<-136670159, -22>>, <<-227752139, -23>>, <<-195184249, -23>>,
    <<-170754039, -23>>, <<-151748948, -23>>, <<-136541439, -23>>, <<-248191616, -24>>,
    <<-227443168, -24>>, <<-209881498, -24>>, <<-194823724, -24>>, <<-181769064, -24>>,
    <<-170341933, -24>>, <<-160255117, -24>>, <<-151285229, -24>>, <<-143255911, -24>>,
    <<-136026074, -24>>, <<-258963010, -25>>, <<-247057513, -25>>, <<-236181265, -25>>,
    <<-226205606, -25>>, <<-217022462, -25>>, <<-208540385, -25>>, <<-200681473, -25>>,
    <<-193378957, -25>>, <<-186575272, -25>>, <<-180220533, -25>>, <<-174271289, -25>>,
    <<-168689521, -25>>, <<-163441818, -25>>, <<-158498699, -25>>, <<-153834054, -25>>,
    <<-149424671, -25>>, <<-145249851, -25>>, <<-141291070, -25>>, <<-137531707, -25>>,
    <<-267913603, -26>>, <<-261105703, -26>>, <<-254615285, -26>>, <<-248420190, -26>>,
    <<-242500275, -26>>, <<-236837185, -26>>, <<-231414164, -26>>, <<-226215879, -26>>,
    <<-221228277, -26>>, <<-216438448, -26>>, <<-211834520, -26>>, <<-207405548, -26>>,
    <<-203141431, -26>>, <<-199032827, -26>>, <<-195071090, -26>>, <<-191248200, -26>>,
    <<-187556710, -26>>, <<-183989696, -26>>, <<-180540711, -26>>, <<-177203745, -26>>,
    <<-173973188, -26>>, <<-170843799, -26>>, <<-167810673, -26>>, <<-164869219, -26>>,
    <<-162015130, -26>>, <<-159244365, -26>>, <<-156553128, -26>>, <<-153937851, -26>>,
    <<-151395171, -26>>, <<-148921925, -26>>, <<-146515129, -26>>, <<-144171964, -26>>,
    <<-141889772, -26>>, <<-139666037, -26>>, <<-137498381, -26>>, <<-135384551, -26>>,
    <<-266644829, -27>>, <<-262619896, -27>>, <<-258690465, -27>>, <<-254852889, -27>>,
    <<-251103708, -27>>, <<-247439628, -27>>, <<-243857517, -27>>, <<-240354396, -27>>,
    <<-236927424, -27>>, <<-233573896, -27>>, <<-230291230, -27>>, <<-227076965, -27>>,
    <<-223928751, -27>>, <<-220844341, -27>>, <<-217821592, -27>>, <<-214858450, -27>>,
    <<-211952954, -27>>, <<-209103225, -27>>, <<-206307464, -27>>, <<-203563948, -27>>,
    <<-200871025, -27>>, <<-198227111, -27>>, <<-195630687, -27>>, <<-193080294, -27>>,
    <<-190574531, -27>>, <<-188112054, -27>>, <<-185691570, -27>>, <<-183311836, -27>>,
    <<-180971657, -27>>, <<-178669882, -27>>, <<-176405406, -27>>, <<-174177162, -27>>,
    <<-171984124, -27>>, <<-169825303, -27>>, <<-167699745, -27>>, <<-165606531, -27>>,
    <<-163544775, -27>>, <<-161513620, -27>>, <<-159512241, -27>>, <<-157539840, -27>>,
    <<-155595647, -27>>, <<-153678918, -27>>, <<-151788934, -27>>, <<-149925000, -27>>,
    <<-148086443, -27>>, <<-146272612, -27>>, <<-144482879, -27>>, <<-142716634, -27>>,
    <<-140973288, -27>>, <<-139252269, -27>>, <<-137553024, -27>>, <<-135875017, -27>>,
    <<-134217728, -27>>, <<-265161306, -28>>, <<-261926608, -28>>, <<-258730412, -28>>,
    <<-255571800, -28>>, <<-252449878, -28>>, <<-249363781, -28>>, <<-246312666, -28>>,
    <<-243295716, -28>>, <<-240312137, -28>>, <<-237361157, -28>>, <<-234442027, -28>>,
    <<-231554017, -28>>, <<-228696418, -28>>, <<-225868541, -28>>, <<-223069714, -28>>,
    <<-220299285, -28>>, <<-217556619, -28>>, <<-214841096, -28>>, <<-212152114, -28>>,
    <<-209489086, -28>>, <<-206851441, -28>>, <<-204238622, -28>>, <<-201650085, -28>>,
    <<-199085303, -28>>, <<-196543758, -28>>, <<-194024947, -28>>, <<-191528380, -28>>,
    <<-189053578, -28>>, <<-186600074, -28>>, <<-184167410, -28>>, <<-181755143, -28>>,
    <<-179362837, -28>>, <<-176990068, -28>>, <<-174636420, -28>>, <<-172301489, -28>>,
    <<-169984878, -28>>, <<-167686200, -28>>, <<-165405076, -28>>, <<-163141137, -28>>,
    <<-160894021, -28>>, <<-158663372, -28>>, <<-156448845, -28>>, <<-154250101, -28>>,
    <<-152066808, -28>>, <<-149898640, -28>>, <<-147745279, -28>>, <<-145606415, -28>>,
    <<-143481741, -28>>, <<-141370958, -28>>, <<-139273773, -28>>, <<-137189899, -28>>,
    <<-135119054, -28>>, <<-266121922, -29>>, <<-262030701, -29>>, <<-257963911, -29>>,
    <<-253921031, -29>>, <<-249901548, -29>>, <<-245904961, -29>>, <<-241930776, -29>>,
    <<-237978508, -29>>, <<-234047681, -29>>, <<-230137828, -29>>, <<-226248489, -29>>,
    <<-222379213, -29>>, <<-218529555, -29>>, <<-214699079, -29>>, <<-210887356, -29>>,
    <<-207093963, -29>>, <<-203318485, -29>>, <<-199560514, -29>>, <<-195819645, -29>>,
    <<-192095484, -29>>, <<-188387640, -29>>, <<-184695728, -29>>, <<-181019370, -29>>,
    <<-177358193, -29>>, <<-173711828, -29>>, <<-170079914, -29>>, <<-166462092, -29>>,
    <<-162858011, -29>>, <<-159267321, -29>>, <<-155689679, -29>>, <<-152124748, -29>>,
    <<-148572191, -29>>, <<-145031678, -29>>, <<-141502884, -29>>, <<-137985485, -29>>,
    <<-134479163, -29>>, <<-261967205, -30>>, <<-254996985, -30>>, <<-248047050, -30>>,
    <<-241116790, -30>>, <<-234205601, -30>>, <<-227312888, -30>>, <<-220438059, -30>>,
    <<-213580528, -30>>, <<-206739717, -30>>, <<-199915050, -30>>, <<-193105960, -30>>,
    <<-186311880, -30>>, <<-179532253, -30>>, <<-172766522, -30>>, <<-166014138, -30>>,
    <<-159274554, -30>>, <<-152547227, -30>>, <<-145831619, -30>>, <<-139127195, -30>>,
    <<-264866845, -31>>, <<-251499550, -31>>, <<-238151452, -31>>, <<-224821508, -31>>,
    <<-211508678, -31>>, <<-198211930, -31>>, <<-184930235, -31>>, <<-171662568, -31>>,
    <<-158407910, -31>>, <<-145165246, -31>>, <<-263867125, -32>>, <<-237423703, -32>>,
    <<-210998213, -32>>, <<-184588650, -32>>, <<-158193013, -32>>, <<-263618607, -33>>,
    <<-210871058, -33>>, <<-158139398, -33>>, <<-210839298, -34>>, <<-210831360, -35>>,
    <<-148050714, -80>>, <<210831360, -35>>, <<210839298, -34>>, <<158139398, -33>>,
    <<210871058, -33>>, <<263618607, -33>>, <<158193013, -32>>, <<184588650, -32>>,
    <<210998213, -32>>, <<237423703, -32>>, <<263867125, -32>>, <<145165246, -31>>,
    <<158407910, -31>>, <<171662568, -31>>, <<184930235, -31>>, <<198211930, -31>>,
    <<211508678, -31>>, <<224821508, -31>>, <<238151452, -31>>, <<251499550, -31>>,
    <<264866845, -31>>, <<139127195, -30>>, <<145831619, -30>>, <<152547227, -30>>,
    <<159274554, -30>>, <<166014138, -30>>, <<172766522, -30>>, <<179532253, -30>>,
    <<186311880, -30>>, <<193105960, -30>>, <<199915050, -30>>, <<206739717, -30>>,
    <<213580528, -30>>, <<220438059, -30>>, <<227312888, -30>>, <<234205601, -30>>,
    <<241116790, -30>>, <<248047050, -30>>, <<254996985, -30>>, <<261967205, -30>>,
    <<134479163, -29>>, <<137985485, -29>>, <<141502884, -29>>, <<145031678, -29>>,
    <<148572191, -29>>, <<152124748, -29>>, <<155689679, -29>>, <<159267321, -29>>,
    <<162858011, -29>>, <<166462092, -29>>, <<170079914, -29>>, <<173711828, -29>>,
    <<177358193, -29>>, <<181019370, -29>>, <<184695728, -29>>, <<188387640, -29>>,
    <<192095484, -29>>, <<195819645, -29>>, <<199560514, -29>>, <<203318485, -29>>,
    <<207093963, -29>>, <<210887356, -29>>, <<214699079, -29>>, <<218529555, -29>>,
    <<222379213, -29>>, <<226248489, -29>>, <<230137828, -29>>, <<234047681, -29>>,
    <<237978508, -29>>, <<241930776, -29>>, <<245904961, -29>>, <<249901548, -29>>,
    <<253921031, -29>>, <<257963911, -29>>, <<262030701, -29>>, <<266121922, -29>>,
    <<135119054, -28>>, <<137189899, -28>>, <<139273773, -28>>, <<141370958, -28>>,
    <<143481741, -28>>, <<145606415, -28>>, <<147745279, -28>>, <<149898640, -28>>,
    <<152066808, -28>>, <<154250101, -28>>, <<156448845, -28>>, <<158663372, -28>>,
    <<160894021, -28>>, <<163141137, -28>>, <<165405076, -28>>, <<167686200, -28>>,
    <<169984878, -28>>, <<172301489, -28>>, <<174636420, -28>>, <<176990068, -28>>,
    <<179362837, -28>>, <<181755143, -28>>, <<184167410, -28>>, <<186600074, -28>>,
    <<189053578, -28>>, <<191528380, -28>>, <<194024947, -28>>, <<196543758, -28>>,
    <<199085303, -28>>, <<201650085, -28>>, <<204238622, -28>>, <<206851441, -28>>,
    <<209489086, -28>>, <<212152114, -28>>, <<214841096, -28>>, <<217556619, -28>>,
    <<220299285, -28>>, <<223069714, -28>>, <<225868541, -28>>, <<228696418, -28>>,
    <<231554017, -28>>, <<234442027, -28>>, <<237361157, -28>>, <<240312137, -28>>,
    <<243295716, -28>>, <<246312666, -28>>, <<249363781, -28>>, <<252449878, -28>>,
    <<255571800, -28>>, <<258730412, -28>>, <<261926608, -28>>, <<265161306, -28>>,
    <<134217728, -27>>, <<135875017, -27>>, <<137553024, -27>>, <<139252269, -27>>,
    <<140973288, -27>>, <<142716634, -27>>, <<144482879, -27>>, <<146272612, -27>>,
    <<148086443, -27>>, <<149925000, -27>>, <<151788934, -27>>, <<153678918, -27>>,
    <<155595647, -27>>, <<157539840, -27>>, <<159512241, -27>>, <<161513620, -27>>,
    <<163544775, -27>>, <<165606531, -27>>, <<167699745, -27>>, <<169825303, -27>>,
    <<171984124, -27>>, <<174177162, -27>>, <<176405406, -27>>, <<178669882, -27>>,
    <<180971657, -27>>, <<183311836, -27>>, <<185691570, -27>>, <<188112054, -27>>,
    <<190574531, -27>>, <<193080294, -27>>, <<195630687, -27>>, <<198227111, -27>>,
    <<200871025, -27>>, <<203563948, -27>>, <<206307464, -27>>, <<209103225, -27>>,
    <<211952954, -27>>, <<214858450, -27>>, <<217821592, -27>>, <<220844341, -27>>,
    <<223928751, -27>>, <<227076965, -27>>, <<230291230, -27>>, <<233573896, -27>>,
    <<236927424, -27>>, <<240354396, -27>>, <<243857517, -27>>, <<247439628, -27>>,
    <<251103708, -27>>, <<254852889, -27>>, <<258690465, -27>>, <<262619896, -27>>,
    <<266644829, -27>>, <<135384551, -26>>, <<137498381, -26>>, <<139666037, -26>>,
    <<141889772, -26>>, <<144171964, -26>>, <<146515129, -26>>, <<148921925, -26>>,
    <<151395171, -26>>, <<153937851, -26>>, <<156553128, -26>>, <<159244365, -26>>,
    <<162015130, -26>>, <<164869219, -26>>, <<167810673, -26>>, <<170843799, -26>>,
    <<173973188, -26>>, <<177203745, -26>>, <<180540711, -26>>, <<183989696, -26>>,
    <<187556710, -26>>, <<191248200, -26>>, <<195071090, -26>>, <<199032827, -26>>,
    <<203141431, -26>>, <<207405548, -26>>, <<211834520, -26>>, <<216438448, -26>>,
    <<221228277, -26>>, <<226215879, -26>>, <<231414164, -26>>, <<236837185, -26>>,
    <<242500275, -26>>, <<248420190, -26>>, <<254615285, -26>>, <<261105703, -26>>,
    <<267913603, -26>>, <<137531707, -25>>, <<141291070, -25>>, <<145249851, -25>>,
    <<149424671, -25>>, <<153834054, -25>>, <<158498699, -25>>, <<163441818, -25>>,
    <<168689521, -25>>, <<174271289, -25>>, <<180220533, -25>>, <<186575272, -25>>,
    <<193378957, -25>>, <<200681473, -25>>, <<208540385, -25>>, <<217022462, -25>>,
    <<226205606, -25>>, <<236181265, -25>>, <<247057513, -25>>, <<258963010, -25>>,
    <<136026074, -24>>, <<143255911, -24>>, <<151285229, -24>>, <<160255117, -24>>,
    <<170341933, -24>>, <<181769064, -24>>, <<194823724, -24>>, <<209881498, -24>>,
    <<227443168, -24>>, <<248191616, -24>>, <<136541439, -23>>, <<151748948, -23>>,
    <<170754039, -23>>, <<195184249, -23>>, <<227752139, -23>>, <<136670159, -22>>,
    <<170857003, -22>>, <<227829355, -22>>, <<170882740, -21>>, <<170889174, -20>>,
    <<162236287, 25>>, <<-170889174, -20>>, <<-170882740, -21>>, <<-227829355, -22>>,
    <<-170857003, -22>>, <<-136670159, -22>>, <<-227752139, -23>>, <<-195184249, -23>>,
    <<-170754039, -23>>, <<-151748948, -23>>, <<-136541439, -23>>, <<-248191616, -24>>,
    <<-227443168, -24>>, <<-209881498, -24>>, <<-194823724, -24>>, <<-181769064, -24>>,
    <<-170341933, -24>>, <<-160255117, -24>>, <<-151285229, -24>>, <<-143255911, -24>>,
    <<-136026074, -24>>, <<-258963010, -25>>, <<-247057513, -25>>, <<-236181265, -25>>,
    <<-226205606, -25>>, <<-217022462, -25>>, <<-208540385, -25>>, <<-200681473, -25>>,
    <<-193378957, -25>>, <<-186575272, -25>>, <<-180220533, -25>>, <<-174271289, -25>>,
    <<-168689521, -25>>, <<-163441818, -25>>, <<-158498699, -25>>, <<-153834054, -25>>,
    <<-149424671, -25>>, <<-145249851, -25>>, <<-141291070, -25>>, <<-137531707, -25>>,
    <<-267913603, -26>>, <<-261105703, -26>>, <<-254615285, -26>>, <<-248420190, -26>>,
    <<-242500275, -26>>, <<-236837185, -26>>, <<-231414164, -26>>, <<-226215879, -26>>,
    <<-221228277, -26>>, <<-216438448, -26>>, <<-211834520, -26>>, <<-207405548, -26>>,
    <<-203141431, -26>>, <<-199032827, -26>>, <<-195071090, -26>>, <<-191248200, -26>>,
    <<-187556710, -26>>, <<-183989696, -26>>, <<-180540711, -26>>, <<-177203745, -26>>,
    <<-173973188, -26>>, <<-170843799, -26>>, <<-167810673, -26>>, <<-164869219, -26>>,
    <<-162015130, -26>>, <<-159244365, -26>>, <<-156553128, -26>>, <<-153937851, -26>>,
    <<-151395171, -26>>, <<-148921925, -26>>, <<-146515129, -26>>, <<-144171964, -26>>,
    <<-141889772, -26>>, <<-139666037, -26>>, <<-137498381, -26>>, <<-135384551, -26>>,
    <<-266644829, -27>>, <<-262619896, -27>>, <<-258690465, -27>>, <<-254852889, -27>>,
    <<-251103708, -27>>, <<-247439628, -27>>, <<-243857517, -27>>, <<-240354396, -27>>,
    <<-236927424, -27>>, <<-233573896, -27>>, <<-230291230, -27>>, <<-227076965, -27>>,
    <<-223928751, -27>>, <<-220844341, -27>>, <<-217821592, -27>>, <<-214858450, -27>>,
    <<-211952954, -27>>, <<-209103225, -27>>, <<-206307464, -27>>, <<-203563948, -27>>,
    <<-200871025, -27>>, <<-198227111, -27>>, <<-195630687, -27>>, <<-193080294, -27>>,
    <<-190574531, -27>>, <<-188112054, -27>>, <<-185691570, -27>>, <<-183311836, -27>>,
    <<-180971657, -27>>, <<-178669882, -27>>, <<-176405406, -27>>, <<-174177162, -27>>,
    <<-171984124, -27>>, <<-169825303, -27>>, <<-167699745, -27>>, <<-165606531, -27>>,
    <<-163544775, -27>>, <<-161513620, -27>>, <<-159512241, -27>>, <<-157539840, -27>>,
    <<-155595647, -27>>, <<-153678918, -27>>, <<-151788934, -27>>, <<-149925000, -27>>,
    <<-148086443, -27>>, <<-146272612, -27>>, <<-144482879, -27>>, <<-142716634, -27>>,
    <<-140973288, -27>>, <<-139252269, -27>>, <<-137553024, -27>>, <<-135875017, -27>>,
    <<-134217728, -27>>, <<-265161306, -28>>, <<-261926608, -28>>, <<-258730412, -28>>,
    <<-255571800, -28>>, <<-252449878, -28>>, <<-249363781, -28>>, <<-246312666, -28>>,
    <<-243295716, -28>>, <<-240312137, -28>>, <<-237361157, -28>>, <<-234442027, -28>>,
    <<-231554017, -28>>, <<-228696418, -28>>, <<-225868541, -28>>, <<-223069714, -28>>,
    <<-220299285, -28>>, <<-217556619, -28>>, <<-214841096, -28>>, <<-212152114, -28>>,
    <<-209489086, -28>>, <<-206851441, -28>>, <<-204238622, -28>>, <<-201650085, -28>>,
    <<-199085303, -28>>, <<-196543758, -28>>, <<-194024947, -28>>, <<-191528380, -28>>,
    <<-189053578, -28>>, <<-186600074, -28>>, <<-184167410, -28>>, <<-181755143, -28>>,
    <<-179362837, -28>>, <<-176990068, -28>>, <<-174636420, -28>>, <<-172301489, -28>>,
    <<-169984878, -28>>, <<-167686200, -28>>, <<-165405076, -28>>, <<-163141137, -28>>,
    <<-160894021, -28>>, <<-158663372, -28>>, <<-156448845, -28>>, <<-154250101, -28>>,
    <<-152066808, -28>>, <<-149898640, -28>>, <<-147745279, -28>>, <<-145606415, -28>>,
    <<-143481741, -28>>, <<-141370958, -28>>, <<-139273773, -28>>, <<-137189899, -28>>,
    <<-135119054, -28>>, <<-266121922, -29>>, <<-262030701, -29>>, <<-257963911, -29>>,
    <<-253921031, -29>>, <<-249901548, -29>>, <<-245904961, -29>>, <<-241930776, -29>>,
    <<-237978508, -29>>, <<-234047681, -29>>, <<-230137828, -29>>, <<-226248489, -29>>,
    <<-222379213, -29>>, <<-218529555, -29>>, <<-214699079, -29>>, <<-210887356, -29>>,
    <<-207093963, -29>>, <<-203318485, -29>>, <<-199560514, -29>>, <<-195819645, -29>>,
    <<-192095484, -29>>, <<-188387640, -29>>, <<-184695728, -29>>, <<-181019370, -29>>,
    <<-177358193, -29>>, <<-173711828, -29>>, <<-170079914, -29>>, <<-166462092, -29>>,
    <<-162858011, -29>>, <<-159267321, -29>>, <<-155689679, -29>>, <<-152124748, -29>>,
    <<-148572191, -29>>, <<-145031678, -29>>, <<-141502884, -29>>, <<-137985485, -29>>,
    <<-134479163, -29>>, <<-261967205, -30>>, <<-254996985, -30>>, <<-248047050, -30>>,
    <<-241116790, -30>>, <<-234205601, -30>>, <<-227312888, -30>>, <<-220438059, -30>>,
    <<-213580528, -30>>, <<-206739717, -30>>, <<-199915050, -30>>, <<-193105960, -30>>,
    <<-186311880, -30>>, <<-179532253, -30>>, <<-172766522, -30>>, <<-166014138, -30>>,
    <<-159274554, -30>>, <<-152547227, -30>>, <<-145831619, -30>>, <<-139127195, -30>>,
    <<-264866845, -31>>, <<-251499550, -31>>, <<-238151452, -31>>, <<-224821508, -31>>,
    <<-211508678, -31>>, <<-198211930, -31>>, <<-184930235, -31>>, <<-171662568, -31>>,
    <<-158407910, -31>>, <<-145165246, -31>>, <<-263867125, -32>>, <<-237423703, -32>>,
    <<-210998213, -32>>, <<-184588650, -32>>, <<-158193013, -32>>, <<-263618607, -33>>,
    <<-210871058, -33>>, <<-158139398, -33>>, <<-210839298, -34>>, <<-210831360, -35>>
  >>

\* math.sin(angle_rad), math.cos(angle_rad), math.tan(angle_rad): the angle
\* angle_rad = i * angle_scale is carried as its index i
math_sin(a) == Float(SinTab[a + 1][1], SinTab[a + 1][2])

math_cos(a) == Float(CosTab[a + 1][1], CosTab[a + 1][2])

math_tan(a) == Float(TanTab[a + 1][1], TanTab[a + 1][2])

(***************************************************************************)
(* to_fixed_point                                                          *)
(***************************************************************************)
frac_bits == 7

max_val == 32767

min_val == -32768

\* value * scale, scale = 2 ** frac_bits
Scaled(value) == FMulPow2(value, frac_bits)

\* round(inf) raises OverflowError: to_fixed_point does not return
to_fixed_point_raises(value) == IsInf(Scaled(value))

to_fixed_point(value) ==
    LET fixed == PyRound(Scaled(value)) IN
    IF fixed > max_val THEN max_val
    ELSE IF fixed < min_val THEN min_val
    ELSE fixed

(***************************************************************************)
(* to_unsigned_hex                                                         *)
(***************************************************************************)
HexDigits == <<"0", "1", "2", "3", "4", "5", "6", "7",
               "8", "9", "a", "b", "c", "d", "e", "f">>

\* format(n, "x") for n >= 0, one digit per element
RECURSIVE HexOf(_)
HexOf(n) ==
    IF n < 16 THEN <<HexDigits[n + 1]>>
    ELSE HexOf(n \div 16) \o <<HexDigits[(n % 16) + 1]>>

RECURSIVE ZeroPad(_, _)
ZeroPad(s, w) == IF Len(s) >= w THEN s ELSE ZeroPad(<<"0">> \o s, w)

\* f"{value:04x}": at least 4 characters, the sign of a negative value first
Format04x(value) ==
    IF value < 0 THEN <<"-">> \o ZeroPad(HexOf(-value), 3)
    ELSE ZeroPad(HexOf(value), 4)

\* mutant of to_unsigned_hex: 1 << 16 is not added to a negative value
to_unsigned_hex_NoWrap(value) == Format04x(value)

to_unsigned_hex(value) ==
    IF value < 0 THEN Format04x(Pow2(16) + value) ELSE Format04x(value)

(***************************************************************************)
(* generate_trig_lut                                                       *)
(***************************************************************************)
num_angles == 1024

\* the float literals of lines 63-77
F255 == Float(255, 0)

FNeg255 == Float(-255, 0)

F0 == Float(0, 0)

\* 1e-6 = 0x1.0c6f7a0b5ed8dp-20, to 28 significant bits
F1em6 == Float(140737488, -47)

\* mutant of TanFixed: the pre-clamp at +-256.0 instead of +-255.0
TanFixedAt256(tan_val) ==
    IF FLess(Float(256, 0), tan_val) THEN 32767
    ELSE IF FLess(tan_val, Float(-256, 0)) THEN -32768
    ELSE to_fixed_point(tan_val)

\* mutant of TanFixed: no pre-clamp, the saturation of to_fixed_point alone
TanFixedNoPreClamp(tan_val) == to_fixed_point(tan_val)

\* lines 63-68: tan_fixed from tan_val
TanFixed(tan_val) ==
    IF FLess(F255, tan_val) THEN 32767
    ELSE IF FLess(tan_val, FNeg255) THEN -32768
    ELSE to_fixed_point(tan_val)

\* lines 71-80: cot_fixed from tan_val and cos_val
CotFixed(tan_val, cos_val) ==
    IF FLess(FAbs(tan_val), F1em6)
    THEN IF FLess(F0, cos_val) THEN 32767 ELSE -32768
    ELSE LET cot_val == FRecip(tan_val) IN
         IF FLess(F255, cot_val) THEN 32767
         ELSE IF FLess(cot_val, FNeg255) THEN -32768
         ELSE to_fixed_point(cot_val)

\* mutant of AxisTan: the extremes of 90 and 270 degrees exchanged
AxisTanFlipped(idx) == IF idx = 256 \/ idx = 768
                       THEN (IF idx = 768 THEN 32767 ELSE -32768)
                       ELSE 0

\* lines 53-58: the entries set without math.tan and without to_fixed_point
AxisTan(idx) == IF idx = 256 \/ idx = 768
                THEN (IF idx = 256 THEN 32767 ELSE -32768)
                ELSE 0

AxisCot(idx) == IF idx = 256 \/ idx = 768
                THEN 0
                ELSE (IF idx = 0 THEN 32767 ELSE -32768)

\* lines 53-80: which branch index idx takes
BranchOf(idx) ==
    IF idx = 256 \/ idx = 768 THEN "axis_tan"
    ELSE IF idx = 0 \/ idx = 512 THEN "axis_cot"
    ELSE "general"

\* lines 42-80: the four values of one loop iteration
Row(idx) ==
    LET sin_val == math_sin(idx)
        cos_val == math_cos(idx)
        general == BranchOf(idx) = "general"
    IN  [sin |-> to_fixed_point(sin_val),
         cos |-> to_fixed_point(cos_val),
         tan |-> IF general THEN TanFixed(math_tan(idx)) ELSE AxisTan(idx),
         cot |-> IF general THEN CotFixed(math_tan(idx), cos_val)
                 ELSE AxisCot(idx),
         branch |-> BranchOf(idx)]

\* a to_fixed_point call of the iteration raises (lines 49, 50, 68, 80)
RowRaises(idx) ==
    \/ to_fixed_point_raises(math_sin(idx))
    \/ to_fixed_point_raises(math_cos(idx))
    \/ /\ BranchOf(idx) = "general"
       /\ LET tan_val == math_tan(idx) IN
          \/ /\ ~FLess(F255, tan_val)
             /\ ~FLess(tan_val, FNeg255)
             /\ to_fixed_point_raises(tan_val)
          \/ /\ ~FLess(FAbs(tan_val), F1em6)
             /\ ~FLess(F255, FRecip(tan_val))
             /\ ~FLess(FRecip(tan_val), FNeg255)
             /\ to_fixed_point_raises(FRecip(tan_val))

\* the table of the rows, computed once
Rows == [idx \in 0 .. num_angles - 1 |-> Row(idx)]

(***************************************************************************)
(* write_combined_coe_file.  Every f.write of the function writes one text *)
(* that ends in "\n" and holds no other "\n": f is the sequence of the     *)
(* lines written, each line the sequence of its pieces without the "\n"    *)
(* (a header text is one piece, a hex digit or a terminator is one piece). *)
(***************************************************************************)
\* mutant of Header: one comment line instead of four
HeaderThreeLines == << <<"; Combined TrigLUT lookup table">>,
                       <<"memory_initialization_radix=16;">>,
                       <<"memory_initialization_vector=">> >>

\* lines 107-112
Header == << <<"; Combined TrigLUT lookup table">>,
             <<"; 1024 entries, 64-bit values">>,
             <<"; Format: [sin(15:0), cos(15:0), tan(15:0), cot(15:0)]">>,
             <<"; Each value is Q9.7 signed fixed-point (16 bits)">>,
             <<"memory_initialization_radix=16;">>,
             <<"memory_initialization_vector=">> >>

\* mutant of Combined: cos before sin
CombinedCosFirst(s, c, t, ct, k) ==
    to_unsigned_hex(c[k + 1]) \o to_unsigned_hex(s[k + 1])
        \o to_unsigned_hex(t[k + 1]) \o to_unsigned_hex(ct[k + 1])

\* lines 115-121
Combined(s, c, t, ct, k) ==
    to_unsigned_hex(s[k + 1]) \o to_unsigned_hex(c[k + 1])
        \o to_unsigned_hex(t[k + 1]) \o to_unsigned_hex(ct[k + 1])

\* mutant of Terminator: the two branches of the if exchanged
TerminatorExchanged(k, n) == IF k = n - 1 THEN "," ELSE ";"

\* lines 123-126
Terminator(k, n) == IF k = n - 1 THEN ";" ELSE ","

(***************************************************************************)
(* The arguments of a call.                                                *)
(***************************************************************************)
\* the grid points within 1.0 of -256.0, 0.0 and 256.0
GridInputs ==
    LET g == Pow2(GridBits) IN
    { Float(n, -GridBits) :
        n \in ((-257 * g) .. (-255 * g)) \cup ((-g) .. g)
                \cup ((255 * g) .. (257 * g)) }

\* small multiples of powers of two, from 2^-40 to the largest floats
Exponents == {-40, -24, -20, 3, 4, 11, 1000, 1012, 1013, 1019}

OffGridInputs == { Float(m, e) : m \in (-MaxMant) .. MaxMant, e \in Exponents }

FloatInputs == GridInputs \cup OffGridInputs

\* tan_val with the two signs of cos_val
TanCotInputs ==
    { [tan_val |-> t, cos_val |-> c] :
        t \in FloatInputs, c \in {Float(-1, 0), Float(1, 0)} }

\* the signed 16-bit integers
HexInputs == min_val .. max_val

(***************************************************************************)
(* The state machine.                                                      *)
(***************************************************************************)
InitMain ==
    /\ mode = "main"
    /\ pc = "generate"
    /\ fn = "main"
    /\ arg = <<>>

InitCall ==
    /\ mode = "call"
    /\ pc = "call"
    /\ \/ fn = "to_fixed_point" /\ arg \in FloatInputs
       \/ fn = "to_unsigned_hex" /\ arg \in HexInputs
       \/ fn = "tan_cot" /\ arg \in TanCotInputs

Init ==
    /\ InitMain \/ InitCall
    /\ i = 0
    /\ sin_table = <<>>
    /\ cos_table = <<>>
    /\ tan_table = <<>>
    /\ cot_table = <<>>
    /\ branch = <<>>
    /\ f = <<>>
    /\ res = <<>>

\* mutant of AppendRow: tan_fixed and cot_fixed appended to each other's list
AppendRowSwapped(tables, row) ==
    [sin |-> Append(tables.sin, row.sin),
     cos |-> Append(tables.cos, row.cos),
     tan |-> Append(tables.tan, row.cot),
     cot |-> Append(tables.cot, row.tan)]

\* lines 82-85
AppendRow(tables, row) ==
    [sin |-> Append(tables.sin, row.sin),
     cos |-> Append(tables.cos, row.cos),
     tan |-> Append(tables.tan, row.tan),
     cot |-> Append(tables.cot, row.cot)]

\* line 41: the loop of generate_trig_lut goes on
LoopGoesOn(idx) == idx < num_angles

\* lines 41-85: one iteration of the loop of generate_trig_lut
GenStep ==
    /\ mode = "main"
    /\ pc = "generate"
    /\ LoopGoesOn(i)
    /\ IF RowRaises(i)
       THEN /\ pc' = "raised"
            /\ UNCHANGED <<i, sin_table, cos_table, tan_table, cot_table,
                           branch>>
       ELSE LET t == AppendRow([sin |-> sin_table, cos |-> cos_table,
                                tan |-> tan_table, cot |-> cot_table],
                               Row(i))
            IN  /\ sin_table' = t.sin
                /\ cos_table' = t.cos
                /\ tan_table' = t.tan
                /\ cot_table' = t.cot
                /\ branch' = Append(branch, Row(i).branch)
                /\ i' = i + 1
                /\ pc' = "generate"
    /\ UNCHANGED <<mode, f, fn, arg, res>>

\* lines 87, 130, 133, 106: the tables are returned and the file is opened
GenReturn ==
    /\ mode = "main"
    /\ pc = "generate"
    /\ ~LoopGoesOn(i)
    /\ pc' = "header"
    /\ f' = <<>>
    /\ UNCHANGED <<mode, i, sin_table, cos_table, tan_table, cot_table,
                   branch, fn, arg, res>>

\* lines 107-112: one f.write of the header
WriteHeader ==
    /\ mode = "main"
    /\ pc = "header"
    /\ f' = Append(f, Header[Len(f) + 1])
    /\ IF Len(f') = Len(Header)
       THEN pc' = "records" /\ i' = 0
       ELSE pc' = "header" /\ i' = i
    /\ UNCHANGED <<mode, sin_table, cos_table, tan_table, cot_table, branch,
                   fn, arg, res>>

\* lines 114-126: one iteration of the loop of write_combined_coe_file
WriteRecord ==
    /\ mode = "main"
    /\ pc = "records"
    /\ i < Len(sin_table)
    /\ f' = Append(f, Append(Combined(sin_table, cos_table, tan_table,
                                      cot_table, i),
                             Terminator(i, Len(sin_table))))
    /\ i' = i + 1
    /\ UNCHANGED <<mode, pc, sin_table, cos_table, tan_table, cot_table,
                   branch, fn, arg, res>>

\* line 106: the with block ends, the file is closed
CloseFile ==
    /\ mode = "main"
    /\ pc = "records"
    /\ i = Len(sin_table)
    /\ pc' = "done"
    /\ UNCHANGED <<mode, i, sin_table, cos_table, tan_table, cot_table,
                   branch, f, fn, arg, res>>

\* a call of to_fixed_point(arg)
CallToFixedPoint ==
    /\ mode = "call"
    /\ pc = "call"
    /\ fn = "to_fixed_point"
    /\ IF to_fixed_point_raises(arg)
       THEN pc' = "raised" /\ res' = "OverflowError"
       ELSE pc' = "returned" /\ res' = to_fixed_point(arg)
    /\ UNCHANGED <<mode, i, sin_table, cos_table, tan_table, cot_table,
                   branch, f, fn, arg>>

\* a call of to_unsigned_hex(arg)
CallToUnsignedHex ==
    /\ mode = "call"
    /\ pc = "call"
    /\ fn = "to_unsigned_hex"
    /\ pc' = "returned"
    /\ res' = to_unsigned_hex(arg)
    /\ UNCHANGED <<mode, i, sin_table, cos_table, tan_table, cot_table,
                   branch, f, fn, arg>>

\* lines 60-80 on a value tan_val of math.tan and a value cos_val of math.cos
CallTanCot ==
    /\ mode = "call"
    /\ pc = "call"
    /\ fn = "tan_cot"
    /\ pc' = "returned"
    /\ res' = [tan |-> TanFixed(arg.tan_val),
               cot |-> CotFixed(arg.tan_val, arg.cos_val)]
    /\ UNCHANGED <<mode, i, sin_table, cos_table, tan_table, cot_table,
                   branch, f, fn, arg>>

Next ==
    \/ GenStep
    \/ GenReturn
    \/ WriteHeader
    \/ WriteRecord
    \/ CloseFile
    \/ CallToFixedPoint
    \/ CallToUnsignedHex
    \/ CallTanCot

Spec == Init /\ [][Next]_vars

(***************************************************************************)
(* Helpers of the properties.                                              *)
(***************************************************************************)
HexDigitSet == { HexDigits[k] : k \in 1 .. 16 }

\* the number a sequence of lowercase hex digits writes
RECURSIVE HexValue(_)
HexValue(s) ==
    IF s = <<>> THEN 0
    ELSE 16 * HexValue(SubSeq(s, 1, Len(s) - 1))
         + ((CHOOSE d \in 1 .. 16 : HexDigits[d] = s[Len(s)]) - 1)

IsHexWord(s, n) == Len(s) = n /\ \A k \in 1 .. n : s[k] \in HexDigitSet

\* a data line: 16 hex digits and a terminator
IsRecordLine(l) ==
    /\ Len(l) = 17
    /\ IsHexWord(SubSeq(l, 1, 16), 16)
    /\ l[17] \in {",", ";"}

\* the 16 digits of a data line
RecordWord(l) == SubSeq(l, 1, 16)

\* x <= y
FLeq(x, y) == ~FLess(y, x)

\* the largest integer <= x and the smallest integer >= x, for a finite x
\* of magnitude below IntCap
FFloor(x) ==
    IF x.m = 0 THEN 0
    ELSE IF x.e >= 0 THEN x.m * Pow2(x.e)
    ELSE IF -x.e >= BitLen(IntCap) THEN (IF x.m < 0 THEN -1 ELSE 0)
    ELSE x.m \div Pow2(-x.e)

FCeil(x) == -FFloor(Float(-x.m, x.e))

\* |n - x| <= 1/2
WithinHalf(n, x) ==
    LET twice == FMulPow2(x, 1) IN
    2 * n - 1 <= FFloor(twice) /\ FCeil(twice) <= 2 * n + 1

InInt16(n) == -32768 <= n /\ n <= 32767

\* an extreme, or the encoding of a value within +-255.0
ExtremeOrWithin255(n) == n \in {32767, -32768} \/ (-32640 <= n /\ n <= 32640)

\* the clamp-to-extreme policy on a real value v
ClampPolicy(v) ==
    IF FLess(Float(255, 0), v) THEN 32767
    ELSE IF FLess(v, Float(-255, 0)) THEN -32768
    ELSE to_fixed_point(v)

Written == mode = "main" /\ pc = "done"

Returned(name) == mode = "call" /\ fn = name /\ pc = "returned"

\* data line k (from 0) of the file, the header being what precedes the
\* first record line
DataLine(k) == f[Len(Header) + k + 1]

(***************************************************************************)
(* C1.  As stated (order sin, cos, tan, cos): every data line written for  *)
(* index k is the hex words of sin[k], cos[k], tan[k] and again cos[k].    *)
(***************************************************************************)
C1_OrderSinCosTanCos ==
    (mode = "main" /\ pc = "records" /\ i > 0) =>
        RecordWord(DataLine(i - 1)) =
            to_unsigned_hex(sin_table[i]) \o to_unsigned_hex(cos_table[i])
                \o to_unsigned_hex(tan_table[i]) \o to_unsigned_hex(cos_table[i])

(***************************************************************************)
(* C1, amended: for every index k in [0, 1024) the data line written for k *)
(* is the concatenation of the four 4-hex-digit words in the order sin,    *)
(* cos, tan, cot, one 16-hex-digit record: the line just written while the *)
(* records are written, and all 1024 lines once the file is written.       *)
(***************************************************************************)
C1_OrderSinCosTanCot ==
    LET Expected(k) ==
            to_unsigned_hex(sin_table[k + 1]) \o to_unsigned_hex(cos_table[k + 1])
                \o to_unsigned_hex(tan_table[k + 1])
                \o to_unsigned_hex(cot_table[k + 1])
    IN  /\ (mode = "main" /\ pc = "records" /\ i > 0) =>
               /\ RecordWord(DataLine(i - 1)) = Expected(i - 1)
               /\ IsHexWord(RecordWord(DataLine(i - 1)), 16)
        /\ Written =>
               \A k \in 0 .. 1023 :
                   /\ RecordWord(DataLine(k)) = Expected(k)
                   /\ IsHexWord(RecordWord(DataLine(k)), 16)

\* the file is written and its first record, of index 0, ends in the word of
\* cot 32767, which is not the word of cos 128
C1_Witness ==
    /\ Written
    /\ DataLine(0) = <<"0", "0", "0", "0", "0", "0", "8", "0",
                       "0", "0", "0", "0", "7", "f", "f", "f", ",">>
    /\ cos_table[1] = 128
    /\ cot_table[1] = 32767

(***************************************************************************)
(* C2.  As stated: the file starts with a header of exactly 3 lines and    *)
(* the first data record is the 4th line.                                  *)
(***************************************************************************)
C2_HeaderThreeLines ==
    (mode = "main" /\ pc \in {"records", "done"} /\ Len(f) >= 4) =>
        /\ \A k \in 1 .. 3 : ~IsRecordLine(f[k])
        /\ IsRecordLine(f[4])

(***************************************************************************)
(* C2, amended: the file starts with a fixed header of exactly 6 lines     *)
(* (four comment lines, then the radix declaration and the vector-start    *)
(* marker), and the first data record is the 7th line.                     *)
(***************************************************************************)
C2_HeaderSixLines ==
    /\ (mode = "main" /\ pc = "header") =>
           /\ Len(f) < 6
           /\ \A k \in 1 .. Len(f) : ~IsRecordLine(f[k])
    /\ (mode = "main" /\ pc \in {"records", "done"}) =>
           /\ Len(f) >= 6
           /\ \A k \in 1 .. 6 : ~IsRecordLine(f[k])
           /\ \A k \in 1 .. 4 : Len(f[k]) = 1
           /\ f[5] = <<"memory_initialization_radix=16;">>
           /\ f[6] = <<"memory_initialization_vector=">>
           /\ (pc = "done" \/ i > 0) => IsRecordLine(f[7])

\* the file is written: its 6th line is the vector-start marker and its 7th
\* the first record
C2_Witness ==
    /\ Written
    /\ Len(f) > 7
    /\ ~IsRecordLine(f[6])
    /\ IsRecordLine(f[7])
    /\ f[7] = DataLine(0)

(***************************************************************************)
(* C3.  After the header, exactly 1024 data lines are written, in          *)
(* increasing index order, each 16 hex digits and a terminator; the        *)
(* terminator is ";" on the line of index 1023 and "," on every other, and *)
(* nothing is written after the ";" line.                                  *)
(***************************************************************************)
C3_DataLines ==
    LET Word(k) == Combined(sin_table, cos_table, tan_table, cot_table, k)
        Shape(k) ==
            /\ IsRecordLine(DataLine(k))
            /\ RecordWord(DataLine(k)) = Word(k)
            /\ DataLine(k)[17] = (IF k = 1023 THEN ";" ELSE ",")
    IN  mode = "main" =>
            /\ pc = "records" =>
                   /\ Len(f) = Len(Header) + i
                   /\ i <= 1024
                   /\ i > 0 => Shape(i - 1)
            /\ pc = "done" =>
                   /\ Len(f) = Len(Header) + 1024
                   /\ \A k \in 0 .. 1023 : Shape(k)
            /\ \A k \in 1 .. Len(f) :
                   (IsRecordLine(f[k]) /\ f[k][17] = ";") => k = Len(f)

\* the file is written: its last line ends in ";" and the line before in ","
C3_Witness ==
    /\ Written
    /\ Len(f) = Len(Header) + 1024
    /\ f[Len(f)][17] = ";"
    /\ f[Len(f) - 1][17] = ","

(***************************************************************************)
(* C4.  The table has these entries at the four axis angles: index 0: sin  *)
(* 0, cos 128, tan 0, cot 32767; index 256: sin 128, cos 0, tan 32767, cot *)
(* 0; index 512: sin 0, cos -128, tan 0, cot -32768; index 768: sin -128,  *)
(* cos 0, tan -32768, cot 0; and none of the four indices takes the        *)
(* general branch, which calls math.tan and the encoder for tan and cot.   *)
(***************************************************************************)
C4_AxisEntries ==
    LET Entry(idx) == <<sin_table[idx + 1], cos_table[idx + 1],
                        tan_table[idx + 1], cot_table[idx + 1]>>
        Has(idx, e) ==
            Len(cot_table) > idx =>
                Entry(idx) = e /\ branch[idx + 1] # "general"
    IN  mode = "main" =>
            /\ Has(0, <<0, 128, 0, 32767>>)
            /\ Has(256, <<128, 0, 32767, 0>>)
            /\ Has(512, <<0, -128, 0, -32768>>)
            /\ Has(768, <<-128, 0, -32768, 0>>)
            /\ pc \in {"header", "records", "done"} => Len(cot_table) > 768

\* the table is returned with its entry of index 768
C4_Witness ==
    /\ mode = "main"
    /\ pc = "header"
    /\ Len(tan_table) = 1024
    /\ tan_table[769] = -32768
    /\ branch[769] = "axis_tan"

(***************************************************************************)
(* C5.  to_fixed_point saturates silently: for every input it returns, no  *)
(* error raised, a value in [-32768, 32767]; 32767 for every v >= 256.0    *)
(* and -32768 for every v <= -256.5.                                       *)
(***************************************************************************)
C5_SaturatesSilently ==
    (mode = "call" /\ fn = "to_fixed_point" /\ pc # "call") =>
        /\ pc = "returned"
        /\ InInt16(res)
        /\ FLeq(Float(256, 0), arg) => res = 32767
        /\ FLeq(arg, Float(-513, -1)) => res = -32768

(***************************************************************************)
(* C6.  Round trip: for every v whose to_fixed_point(v) was not changed by *)
(* the clamp (round(v * 128) lies in [-32768, 32767]), the decoded value   *)
(* to_fixed_point(v) / 128 differs from v by at most 0.5 / 128, that is,   *)
(* to_fixed_point(v) differs from v * 128 by at most 1/2.                  *)
(***************************************************************************)
C6_RoundTrip ==
    (Returned("to_fixed_point") /\ InInt16(PyRound(Scaled(arg)))) =>
        WithinHalf(res, Scaled(arg))

\* to_fixed_point(255.501953125) returned 32704, for v * 128 = 32704.25
C6_Witness ==
    /\ Returned("to_fixed_point")
    /\ arg = Float(130817, -9)
    /\ res = 32704
    /\ InInt16(PyRound(Scaled(arg)))

(***************************************************************************)
(* C7.  For every signed 16-bit x, to_unsigned_hex(x) is exactly 4         *)
(* lowercase hex digits whose value is x when x >= 0 and x + 65536 when    *)
(* x < 0 (so distinct inputs give distinct strings); -1 gives "ffff" and   *)
(* -32768 gives "8000".                                                    *)
(***************************************************************************)
C7_TwosComplementHex ==
    Returned("to_unsigned_hex") =>
        /\ IsHexWord(res, 4)
        /\ HexValue(res) = (IF arg >= 0 THEN arg ELSE arg + 65536)
        /\ arg = -1 => res = <<"f", "f", "f", "f">>
        /\ arg = -32768 => res = <<"8", "0", "0", "0">>

\* to_unsigned_hex(-1) returned "ffff"
C7_Witness ==
    /\ Returned("to_unsigned_hex")
    /\ arg = -1
    /\ res = <<"f", "f", "f", "f">>

(***************************************************************************)
(* C8.  The four sequences stay index-aligned: at every loop boundary,     *)
(* after index i - 1 was processed, all four have length i and position k  *)
(* holds the values computed for angle k * 2 * pi / 1024, whichever branch *)
(* k took; the loop ends after exactly 1024 iterations, no iteration       *)
(* raising, with all four sequences of length 1024.                        *)
(***************************************************************************)
C8_TablesAligned ==
    mode = "main" =>
        /\ Len(sin_table) = Len(cos_table)
        /\ Len(cos_table) = Len(tan_table)
        /\ Len(tan_table) = Len(cot_table)
        /\ Len(cot_table) = Len(branch)
        /\ pc # "raised"
        /\ pc = "generate" => (Len(sin_table) = i /\ i <= 1024)
        /\ pc \in {"header", "records", "done"} => Len(sin_table) = 1024
        /\ \A k \in 1 .. Len(branch) :
               /\ sin_table[k] = Rows[k - 1].sin
               /\ cos_table[k] = Rows[k - 1].cos
               /\ tan_table[k] = Rows[k - 1].tan
               /\ cot_table[k] = Rows[k - 1].cot
               /\ branch[k] = BranchOf(k - 1)

\* the loop has run 1024 times, through axis and general branches
C8_Witness ==
    /\ mode = "main"
    /\ pc = "generate"
    /\ i = 1024
    /\ Len(cot_table) = 1024
    /\ branch[2] = "general"
    /\ branch[257] = "axis_tan"
    /\ branch[513] = "axis_cot"

(***************************************************************************)
(* C9.  As stated: for every v with |v| > 255.0, round(v * 128) lies       *)
(* outside [-32768, 32767], so the pre-clamp of the tan branch stores what *)
(* to_fixed_point would return (taken where to_fixed_point returns).       *)
(***************************************************************************)
C9_PreClampIsSaturation ==
    (Returned("tan_cot") /\ ~to_fixed_point_raises(arg.tan_val)) =>
        /\ FLess(Float(255, 0), FAbs(arg.tan_val)) =>
               ~InInt16(PyRound(Scaled(arg.tan_val)))
        /\ res.tan = to_fixed_point(arg.tan_val)

(***************************************************************************)
(* C9, amended: values beyond +-255.0 do not all overflow the 16-bit range *)
(* once scaled by 128.  For every v with |v| > 255.0: |round(v * 128)| is  *)
(* at least 32640; round(v * 128) lies outside [-32768, 32767] exactly     *)
(* when v >= 255.99609375 or v < -256.00390625; the pre-clamp and          *)
(* to_fixed_point give the same value exactly when v > 255.98828125 or     *)
(* v <= -255.99609375, short of |v| >= 2^1017, where to_fixed_point raises *)
(* OverflowError and gives no value.  For every tan and cot input of the   *)
(* 1024-entry table the two give the same value.                           *)
(***************************************************************************)
C9_PreClampBeyondSaturation ==
    /\ (Returned("tan_cot") /\ FLess(Float(255, 0), FAbs(arg.tan_val))) =>
           LET v == arg.tan_val
               raises == to_fixed_point_raises(v)
           IN  /\ raises <=> FLeq(Float(1, 1017), FAbs(v))
               /\ res.tan = (IF v.m > 0 THEN 32767 ELSE -32768)
               /\ ~raises =>
                      LET r == PyRound(Scaled(v)) IN
                      /\ Abs(r) >= 32640
                      /\ ~InInt16(r) <=> (\/ FLeq(Float(65535, -8), v)
                                          \/ FLess(v, Float(-65537, -8)))
                      /\ res.tan = to_fixed_point(v)
                             <=> (\/ FLess(Float(65533, -8), v)
                                  \/ FLeq(v, Float(-65535, -8)))
    /\ Written =>
           \A k \in 0 .. 1023 :
               BranchOf(k) = "general" =>
                   /\ tan_table[k + 1] = to_fixed_point(math_tan(k))
                   /\ cot_table[k + 1] = to_fixed_point(FRecip(math_tan(k)))

\* tan_val = 255.5: the pre-clamp stores 32767 where to_fixed_point returns
\* 32704
C9_Witness ==
    /\ Returned("tan_cot")
    /\ arg.tan_val = Float(130816, -9)
    /\ res.tan = 32767
    /\ to_fixed_point(arg.tan_val) = 32704

(***************************************************************************)
(* C10.  For every index other than 0, 256, 512 and 768 the clamp-to-      *)
(* extreme policy is applied to tan and to cot: a value > 255.0 is stored  *)
(* as 32767, a value < -255.0 as -32768, any other value is passed to      *)
(* to_fixed_point (for cot: where cot_val = 1 / tan_val is computed);      *)
(* every stored tan and cot entry is 32767, -32768 or within [-32640,      *)
(* 32640].  Taken on every value math.tan may return, and on the table.    *)
(***************************************************************************)
C10_ClampToExtreme ==
    /\ Returned("tan_cot") =>
           /\ res.tan = ClampPolicy(arg.tan_val)
           /\ FLeq(F1em6, FAbs(arg.tan_val)) =>
                  res.cot = ClampPolicy(FRecip(arg.tan_val))
           /\ ExtremeOrWithin255(res.tan)
           /\ ExtremeOrWithin255(res.cot)
    /\ (mode = "main" /\ pc = "generate" /\ i > 0) =>
           /\ ExtremeOrWithin255(tan_table[i])
           /\ ExtremeOrWithin255(cot_table[i])
           /\ BranchOf(i - 1) = "general" =>
                  /\ tan_table[i] = ClampPolicy(math_tan(i - 1))
                  /\ cot_table[i] = ClampPolicy(FRecip(math_tan(i - 1)))
    /\ Written =>
           \A k \in 1 .. 1024 :
               /\ ExtremeOrWithin255(tan_table[k])
               /\ ExtremeOrWithin255(cot_table[k])

\* tan_val = 255.001953125 is stored as 32767, its cot 1 / tan_val as 1
C10_Witness ==
    /\ Returned("tan_cot")
    /\ arg.tan_val = Float(130561, -9)
    /\ res.tan = 32767
    /\ res.cot = 1

====
